---- MODULE Spec2Model ----
(***************************************************************************)
(* A model of the ClickHouse HTTP connector (package clickhouse).          *)
(*                                                                         *)
(* Part I   the queue-based Limiter and the throttled / forced entry       *)
(*          points of Conn, as concurrent callers on one connection.       *)
(* Part II  Iter over one response stream: ForcedFetch, Next, read, Close, *)
(*          ForcedFetchOne, on streams of bytes.                           *)
(* Part III Conn.doQuery: the retry loop over the answers of the server.   *)
(* Part IV  the setters of Conn and the requests made of its fields.       *)
(* Part V   the text of the query that Exec and Fetch give to doQuery.     *)
(* Part VI  Escape and Unescape.                                           *)
(* Part VII the accesses of the setters and of doQuery to the fields of    *)
(*          Conn, and their synchronization.                               *)
(* Part VIII the atomic-counter Limiter (increaseRequests, waitRequests,   *)
(*          reduceRequests).                                               *)
(* Part IX  Conn.InsertBatch: the query it builds from the text it reads.  *)
(***************************************************************************)
EXTENDS Integers, Sequences, FiniteSets, TLC

\* ------------------------------------------------------------------ bounds
NumCallers == 2
MaxCalls == 3
MaxCeiling == 2
MaxCeilingCalls == 2
MaxStreamLen == 6
MaxCloses == 3
MaxAttempts == 3
MaxWait == 1
MaxSets == 2
MaxSeconds == 2
MaxGigaBytes == 4
MaxQueryLen == 5
MaxCellLen == 3
MaxTextLen == 3
NumAtomicCallers == 3
MaxAtomicCalls == 3
MaxAtomicCeiling == 1
NumGoroutines == 2

Callers == 1..NumCallers

\* --------------------------------------------------------------- variables
VARIABLES
    \* Limiter (embedded in Conn) and the pause gate it drives
    maxRequests,      \* Limiter.maxRequests (uint32), 0 = limitation off
    requestsCounter,  \* Limiter.requestsCounter (int32)
    paused,           \* state of the composer's pause gate (Pause / Play)
    once,             \* Limiter.once has run initQueue
    qpc,              \* position of the goroutine started by initQueue
    step,             \* the value that goroutine last received from queue
    loaded,           \* atomic-counter Limiter: the ceiling a caller has
                      \* loaded for the comparison it is about to make
    \* the accesses to the fields of Conn
    running,          \* per goroutine: the method it runs and the place in it
    mux,              \* Conn.mux: 0 when unlocked, else the goroutine holding it
    \* one caller goroutine per element of Callers
    pc,               \* position of the caller inside its current call
    op,               \* entry point of the current (or last) call
    outcome,          \* how the forced body of the call ended
    stream,           \* response stream of the call: none / open / closed
    incs,             \* number of increase() the current call performed
    reds,             \* number of reduce() the current call performed
    callsLeft,        \* calls that may still be started on the connection
    \* one Iter and the response stream it reads
    readCloser,       \* the stream: all its bytes (body), the unread ones
                      \* (data), how it ends (tail), Close() calls (closes)
    iter,             \* Iter: columns, err, Result, isClosed
    phase,            \* new / iter (ForcedFetch gave an Iter) / failed / one
    ret,              \* what the last Next() returned
    met,              \* what the last read() met on the stream
    fetchErr,         \* the error ForcedFetch / ForcedFetchOne returned
    one,              \* what ForcedFetchOne returned
    got,              \* the call just made, when it is one of an accessor
                      \* (or Err()), and its outcome
    taken,            \* a copy the caller made of iter.Result: its map now
                      \* (data), its map when copied (was), after which
                      \* line of the stream (at)
    \* one call of doQuery
    attemptsAmount,   \* Conn.attemptsAmount (uint32)
    attemptWait,      \* Conn.attemptWait (uint32)
    attempts,         \* doQuery's local attempts
    err,              \* doQuery's local err: "nil" or an error message
    res,              \* doQuery's local res: "nil" or the last response
    log,              \* what client.Do gave, attempt by attempt
    sleeps,           \* the time.Sleep calls made, in seconds
    dpc,              \* doQuery is in its loop / has ended
    result,           \* what doQuery returned
    bodies,           \* res.Body of each attempt: none / open / closed
    handed,           \* the stream doQuery returned: none / open / closed
    \* the configuration of the connection and the request made of it
    maxMemoryUsage,   \* Conn.maxMemoryUsage (int32)
    connectTimeout,   \* Conn.connectTimeout (int32)
    sendTimeout,      \* Conn.sendTimeout (int32)
    receiveTimeout,   \* Conn.receiveTimeout (int32)
    compression,      \* Conn.compression (int32): -1 as built, 0 off, 1 on
    protocol,         \* Conn.protocol
    req,              \* the last request doQuery built: options, timeout
    called,           \* the calls of the setters of numbers: the last one and
                      \* how many
    \* the text of a query
    query,            \* the query given to Exec / Fetch / ...
    sent,             \* the entry point called and the query it gave doQuery
    \* the text given to Escape
    line,             \* the argument of Escape
    escaped,          \* what Escape(line) returned
    unescaped         \* what Unescape returned for that

atomVars == <<loaded>>
syncVars == <<running, mux>>
limVars == <<maxRequests, requestsCounter, paused, once, qpc, step, atomVars, syncVars>>
callVars == <<pc, op, outcome, stream, incs, reds, callsLeft>>
iterVars == <<readCloser, iter, phase, ret, met, fetchErr, one, got, taken>>
cfgVars == <<maxMemoryUsage, connectTimeout, sendTimeout, receiveTimeout, compression,
             protocol>>
escVars == <<line, escaped, unescaped>>
fmtVars == <<query, sent, escVars>>
bodyVars == <<bodies, handed>>
qryVars == <<attemptsAmount, attemptWait, attempts, err, res, log, sleeps, dpc, result,
             bodyVars, cfgVars, req, called, fmtVars>>
vars == <<limVars, callVars, iterVars, qryVars>>

\* ----------------------------------------------------------------- helpers
\* uint32(x) conversion of an int32 / int value. For x < 0 the result is
\* 2^32 + x, which is above every int32; it is only ever compared with
\* values below 2^31, so the largest int32 stands for it.
MaxInt32 == 2147483647
U32(x) == IF x >= 0 THEN x ELSE MaxInt32

Throttled == {"Exec", "Fetch", "FetchOne"}
Forced == {"ForcedExec", "ForcedFetch", "ForcedFetchOne"}
Ops == Throttled \cup Forced
Outcomes == {"ok", "err", "panic"}

\* Exec / Fetch / FetchOne start with waitForRest; the Forced variants start
\* with their own body.
EntryNoBypass(o) == "waitForRest"
Entry(o) == IF o \in Throttled THEN "waitForRest" ELSE "forced"

\* `defer conn.reduce()` of Exec / Fetch / FetchOne runs when the forced body
\* has ended, however it ended; the Forced variants just return.
AfterForcedNoDefer(o, out) ==
    IF o \in Throttled /\ out # "panic" THEN "reduce" ELSE "return"
AfterForcedReleaseOnClose(o, out) ==
    IF o \in Throttled /\ ~(o = "Fetch" /\ out = "ok") THEN "reduce" ELSE "return"
AfterForced(o, out) == IF o \in Throttled THEN "reduce" ELSE "return"

\* State of the response stream when the forced body has ended.
\*   ForcedExec      closes the reader it got (defer reader.Close()).
\*   ForcedFetch     hands the open stream to the caller inside the Iter.
\*   ForcedFetchOne  closes the Iter before it returns (defer iter.Close()).
\* With out = "err" doQuery gave no stream.
StreamAfter(o, out) ==
    IF out = "err" THEN "none"
    ELSE IF o \in {"Fetch", "ForcedFetch"} /\ out = "ok" THEN "open"
    ELSE "closed"

\* the goroutine of initQueue, line 33: is a ceiling set ?
Load1Target(max) == IF max > 0 THEN "load2" ELSE "play"
\* the goroutine of initQueue, line 34: ceiling reached ?
Load2TargetNoPlay(max, counter) == IF max <= U32(counter) THEN "pause" ELSE "recv"
Load2Target(max, counter) == IF max <= U32(counter) THEN "pause" ELSE "play"

\* -------------------------------------------------------------------- Init
InitCallers(budget) ==
    /\ pc = [p \in Callers |-> "idle"]
    /\ op = [p \in Callers |-> "none"]
    /\ outcome = [p \in Callers |-> "none"]
    /\ stream = [p \in Callers |-> "none"]
    /\ incs = [p \in Callers |-> 0]
    /\ reds = [p \in Callers |-> 0]
    /\ callsLeft = budget

\* no goroutine is inside a setter or doQuery, the mutex is unlocked
NoAccess ==
    /\ running = <<>>
    /\ mux = 0

InitLimiter ==
    /\ requestsCounter = 0
    /\ paused = FALSE
    /\ once = FALSE
    /\ qpc = "off"
    /\ step = 0
    /\ loaded = <<>>
    /\ NoAccess

\* no accessor has been called
NoGot == [call |-> "none", column |-> <<>>, value |-> <<>>, err |-> "nil"]
\* the caller holds no copy of a Result
NoTaken == [has |-> FALSE, data |-> <<>>, was |-> <<>>, at |-> 0]

\* no Iter is looked at
NoIter ==
    /\ readCloser = [body |-> <<>>, data |-> <<>>, tail |-> "EOF", closes |-> 0]
    /\ iter = [columns |-> <<>>, err |-> "nil", Result |-> <<>>, isClosed |-> FALSE]
    /\ phase = "off"
    /\ ret = "none"
    /\ met = "none"
    /\ fetchErr = "nil"
    /\ one = [Result |-> <<>>, err |-> "nil", nexts |-> 0]
    /\ got = NoGot
    /\ taken = NoTaken

\* error values: nil, or errors.New(msg); a message is a sequence of pieces
\* of text
Nil == [isNil |-> TRUE, msg |-> <<>>]
ErrorsNew(msg) == [isNil |-> FALSE, msg |-> msg]
\* a nil *http.Response
NilRes == [isNil |-> TRUE, status |-> 0, encoding |-> "", body |-> <<>>]
\* doQuery has not returned
NoResult == [kind |-> "none", attempt |-> 0, reader |-> "", wrap |-> "", cause |-> Nil]
\* no request has been built
NoRequest == [built |-> FALSE, options |-> <<>>, timeout |-> 0, acceptGzip |-> FALSE]
\* no query has been given to doQuery
NotSent == [by |-> "", query |-> <<>>]
\* no setter has been called
NoCall == [name |-> "", arg |-> <<>>, negative |-> FALSE, n |-> 0]

\* no response has been received, no stream returned
NoBodies == bodies = <<>> /\ handed = "none"

\* New(): the timeouts, the memory ceiling and compression are -1, the
\* protocol is https
NewConfig ==
    /\ maxMemoryUsage = -1
    /\ connectTimeout = -1
    /\ sendTimeout = -1
    /\ receiveTimeout = -1
    /\ compression = -1
    /\ protocol = "https"
    /\ req = NoRequest
    /\ called = NoCall

\* Escape / Unescape has not been called
NotCalled == [done |-> FALSE, text |-> <<>>]
NoEscape ==
    /\ line = <<>>
    /\ escaped = NotCalled
    /\ unescaped = NotCalled

\* no query text is looked at
NoText ==
    /\ query = <<>>
    /\ sent = NotSent
    /\ NoEscape

\* New(): attemptsAmount 1, attemptWait 0; no doQuery is looked at
NoQuery ==
    /\ NewConfig
    /\ attemptsAmount = 1
    /\ attemptWait = 0
    /\ attempts = 0
    /\ err = Nil
    /\ res = NilRes
    /\ log = <<>>
    /\ sleeps = <<>>
    /\ dpc = "off"
    /\ result = NoResult
    /\ NoBodies

\* New(): the Limiter is zero-valued, no ceiling
Init ==
    /\ maxRequests = 0
    /\ InitLimiter
    /\ InitCallers(MaxCalls)
    /\ NoIter
    /\ NoQuery
    /\ NoText

\* New() followed by MaxRequests(C), C > 0, before any call
InitCeiling ==
    /\ maxRequests \in 1..MaxCeiling
    /\ InitLimiter
    /\ InitCallers(MaxCeilingCalls)
    /\ NoIter
    /\ NoQuery
    /\ NoText

\* ----------------------------------------------------------------- Limiter
\* Limiter.MaxRequests(limit)
MaxRequests(limit) ==
    /\ maxRequests' = U32(limit)
    /\ maxRequests' # maxRequests
    /\ UNCHANGED <<requestsCounter, paused, once, qpc, step, callVars>>
    /\ UNCHANGED <<iterVars, qryVars, atomVars, syncVars>>

\* lim.queue <- v after lim.once.Do(lim.initQueue): the channel is unbuffered,
\* the send completes when the goroutine of initQueue receives the value.
\* The first send creates the channel and starts that goroutine.
Send(v) ==
    /\ qpc = (IF once THEN "recv" ELSE "off")
    /\ once' = TRUE
    /\ step' = v
    /\ qpc' = "add"

\* atomic.AddInt32(&lim.requestsCounter, step); step is not read again
QueueAdd ==
    /\ qpc = "add"
    /\ requestsCounter' = requestsCounter + step
    /\ step' = 0
    /\ qpc' = "load1"
    /\ UNCHANGED <<maxRequests, paused, once, callVars>>
    /\ UNCHANGED <<iterVars, qryVars, atomVars, syncVars>>

\* if atomic.LoadUint32(&lim.maxRequests) > 0
QueueLoad1 ==
    /\ qpc = "load1"
    /\ qpc' = Load1Target(maxRequests)
    /\ UNCHANGED <<maxRequests, requestsCounter, paused, once, step, callVars>>
    /\ UNCHANGED <<iterVars, qryVars, atomVars, syncVars>>

\* if atomic.LoadUint32(&lim.maxRequests) <= uint32(requestsCounter)
QueueLoad2 ==
    /\ qpc = "load2"
    /\ qpc' = Load2Target(maxRequests, requestsCounter)
    /\ UNCHANGED <<maxRequests, requestsCounter, paused, once, step, callVars>>
    /\ UNCHANGED <<iterVars, qryVars, atomVars, syncVars>>

\* composer.GetComposer().Pause()
QueuePause ==
    /\ qpc = "pause"
    /\ paused' = TRUE
    /\ qpc' = "recv"
    /\ UNCHANGED <<maxRequests, requestsCounter, once, step, callVars>>
    /\ UNCHANGED <<iterVars, qryVars, atomVars, syncVars>>

\* composer.GetComposer().Play()
QueuePlay ==
    /\ qpc = "play"
    /\ paused' = FALSE
    /\ qpc' = "recv"
    /\ UNCHANGED <<maxRequests, requestsCounter, once, step, callVars>>
    /\ UNCHANGED <<iterVars, qryVars, atomVars, syncVars>>

QueueStep == QueueAdd \/ QueueLoad1 \/ QueueLoad2 \/ QueuePause \/ QueuePlay

\* ----------------------------------------------------------------- callers
\* a caller enters Exec, Fetch, FetchOne or one of the Forced variants
Call(p, o) ==
    /\ pc[p] = "idle"
    /\ callsLeft > 0
    /\ callsLeft' = callsLeft - 1
    /\ op' = [op EXCEPT ![p] = o]
    /\ pc' = [pc EXCEPT ![p] = Entry(o)]
    /\ UNCHANGED <<limVars, outcome, stream, incs, reds>>
    /\ UNCHANGED <<iterVars, qryVars, atomVars, syncVars>>

\* conn.waitForRest(): NeedWait returns at once when the gate is open and
\* suspends the caller when it is paused
WaitForRest(p) ==
    /\ pc[p] = "waitForRest"
    /\ pc' = [pc EXCEPT ![p] = IF paused THEN "suspended" ELSE "increase"]
    /\ UNCHANGED <<limVars, op, outcome, stream, incs, reds, callsLeft>>
    /\ UNCHANGED <<iterVars, qryVars, atomVars, syncVars>>

\* a caller suspended in NeedWait goes on once the gate is open ("resumed" is
\* "increase" reached through a suspension)
Resume(p) ==
    /\ pc[p] = "suspended"
    /\ ~paused
    /\ pc' = [pc EXCEPT ![p] = "resumed"]
    /\ UNCHANGED <<limVars, op, outcome, stream, incs, reds, callsLeft>>
    /\ UNCHANGED <<iterVars, qryVars, atomVars, syncVars>>

\* conn.increase()
Increase(p) ==
    /\ pc[p] \in {"increase", "resumed"}
    /\ Send(1)
    /\ incs' = [incs EXCEPT ![p] = @ + 1]
    /\ pc' = [pc EXCEPT ![p] = "forced"]
    /\ UNCHANGED <<maxRequests, requestsCounter, paused, op, outcome, stream, reds, callsLeft>>
    /\ UNCHANGED <<iterVars, qryVars, atomVars, syncVars>>

\* the caller is done with the call and with what it returned
Forget(p) ==
    /\ pc' = [pc EXCEPT ![p] = "idle"]
    /\ op' = [op EXCEPT ![p] = "none"]
    /\ outcome' = [outcome EXCEPT ![p] = "none"]
    /\ stream' = [stream EXCEPT ![p] = "none"]
    /\ incs' = [incs EXCEPT ![p] = 0]
    /\ reds' = [reds EXCEPT ![p] = 0]

\* the call returns to its caller (or its panic unwinds into the caller),
\* having sent nReduce steps of -1. A Fetch that succeeded leaves the caller
\* with an Iter over the open stream; after any other call the caller has
\* nothing left to do with it.
Return(p, out, str, nReduce) ==
    IF str = "open"
    THEN /\ pc' = [pc EXCEPT ![p] = "iterating"]
         /\ outcome' = [outcome EXCEPT ![p] = out]
         /\ stream' = [stream EXCEPT ![p] = str]
         /\ reds' = [reds EXCEPT ![p] = @ + nReduce]
         /\ UNCHANGED <<op, incs>>
    ELSE Forget(p)

\* the body: ForcedExec / ForcedFetch / ForcedFetchOne runs and ends; a
\* Forced call returns with it
RunForced(p, out) ==
    /\ pc[p] = "forced"
    /\ IF AfterForced(op[p], out) = "reduce"
       THEN /\ outcome' = [outcome EXCEPT ![p] = out]
            /\ stream' = [stream EXCEPT ![p] = StreamAfter(op[p], out)]
            /\ pc' = [pc EXCEPT ![p] = "reduce"]
            /\ UNCHANGED <<op, incs, reds>>
       ELSE Return(p, out, StreamAfter(op[p], out), 0)
    /\ UNCHANGED <<limVars, callsLeft>>
    /\ UNCHANGED <<iterVars, qryVars, atomVars, syncVars>>

\* the deferred conn.reduce(), with which Exec / Fetch / FetchOne return
Reduce(p) ==
    /\ pc[p] = "reduce"
    /\ Send(-1)
    /\ Return(p, outcome[p], stream[p], 1)
    /\ UNCHANGED <<maxRequests, requestsCounter, paused, callsLeft>>
    /\ UNCHANGED <<iterVars, qryVars, atomVars, syncVars>>

\* the caller drives iter.Next(): a row, or the end of the stream, where
\* read() closes the stream
DriveNext(p, more) ==
    /\ pc[p] = "iterating"
    /\ stream[p] = "open"
    /\ stream' = [stream EXCEPT ![p] = IF more THEN "open" ELSE "closed"]
    /\ UNCHANGED <<limVars, pc, op, outcome, incs, reds, callsLeft>>
    /\ UNCHANGED <<iterVars, qryVars, atomVars, syncVars>>

\* the caller calls iter.Close() and drops the Iter
DriveClose(p) ==
    /\ pc[p] = "iterating"
    /\ Forget(p)
    /\ UNCHANGED <<limVars, callsLeft>>
    /\ UNCHANGED <<iterVars, qryVars, atomVars, syncVars>>

CallerStep(p) ==
    \/ WaitForRest(p)
    \/ Resume(p)
    \/ Increase(p)
    \/ \E out \in Outcomes : RunForced(p, out)
    \/ Reduce(p)
    \/ \E more \in BOOLEAN : DriveNext(p, more)
    \/ DriveClose(p)

NextCeiling ==
    \/ \E p \in Callers, o \in Ops : Call(p, o)
    \/ \E p \in Callers : CallerStep(p)
    \/ QueueStep

Next ==
    \/ \E limit \in 0..MaxCeiling : MaxRequests(limit)
    \/ \E p \in Callers, o \in Ops : Call(p, o)
    \/ \E p \in Callers : CallerStep(p)
    \/ QueueStep

\* one connection, MaxRequests may be called at any time
Spec == Init /\ [][Next]_vars

\* one connection whose ceiling C > 0 stays as set
SpecCeiling == InitCeiling /\ [][NextCeiling]_vars

\* the same, and the program does not stand still while a started call or the
\* queue goroutine can take a step (the Go scheduler guarantees more: every
\* runnable goroutine runs)
FairCeiling ==
    /\ SpecCeiling
    /\ WF_vars(QueueStep \/ \E p \in Callers : CallerStep(p))

\* ================================================================ Part II
\* Iter over one response stream. The stream is a sequence of bytes; "a" is
\* any byte other than the tab and the newline.
Bytes == {"a", "\t", "\n"}
Streams == UNION {[1..n -> Bytes] : n \in 0..MaxStreamLen}
Tails == {"EOF", "ioerr"}

\* index of the first byte d of s, 0 when s has none
IndexOf(s, d) ==
    IF \E i \in 1..Len(s) : s[i] = d
    THEN CHOOSE i \in 1..Len(s) : s[i] = d /\ \A j \in 1..(i - 1) : s[j] # d
    ELSE 0

\* bufio.Reader.ReadBytes(delim): the bytes up to and including the first
\* delim; when the stream ends (EOF or a read error) before a delim, the
\* bytes read so far together with that error
ReadBytes(rc, delim) ==
    LET i == IndexOf(rc.data, delim) IN
    IF i > 0
    THEN [bytes |-> SubSeq(rc.data, 1, i), err |-> "nil",
          rc |-> [rc EXCEPT !.data = SubSeq(rc.data, i + 1, Len(rc.data))]]
    ELSE [bytes |-> rc.data, err |-> rc.tail, rc |-> [rc EXCEPT !.data = <<>>]]

\* what a read can do: on a stream that was not closed it reads the stream;
\* on a closed one it either still finds the bytes (they were buffered, or
\* the closed reader keeps its end of stream) or gets the error of reading a
\* closed body
ReadChoices(rc) == IF rc.closes = 0 THEN {"stream"} ELSE {"stream", "closed"}

\* strings.Split(s, sep): the pieces of s between its separators, one
\* more piece than there are separators
Split(s, sep) ==
    LET seps == {i \in 1..Len(s) : s[i] = sep}
        n == Cardinality(seps)
        \* place of the k-th separator; 0 and Len(s) + 1 stand for the ends
        pos(k) == IF k = 0 THEN 0
                  ELSE IF k = n + 1 THEN Len(s) + 1
                  ELSE CHOOSE i \in seps : Cardinality({j \in seps : j < i}) = k - 1
    IN  [k \in 1..(n + 1) |-> SubSeq(s, pos(k - 1) + 1, pos(k) - 1)]

\* for index, column := range matches { iter.columns[column] = index }
ColumnsOfFromOne(matches) ==
    [c \in {matches[i] : i \in DOMAIN matches} |->
        CHOOSE i \in DOMAIN matches :
            matches[i] = c /\ \A j \in DOMAIN matches : matches[j] = c => j <= i]
ColumnsOf(matches) ==
    [c \in {matches[i] : i \in DOMAIN matches} |->
        (CHOOSE i \in DOMAIN matches :
            matches[i] = c /\ \A j \in DOMAIN matches : matches[j] = c => j <= i) - 1]

\* Iter{conn: conn}
NewIter == [columns |-> <<>>, err |-> "nil", Result |-> <<>>, isClosed |-> FALSE]

\* Iter.Err()
IterErr(it) == it.err

\* A Result is modelled by its field data, a map from names to cells.
\* Result.Columns(): the keys of result.data (a Go map is ranged over in no
\* particular order: the names are a set)
Columns(data) == DOMAIN data

\* Result.String(column): the cell and a nil error, or "" and an error when
\* result.data has no such key
String(data, column) ==
    IF column \in DOMAIN data
    THEN [value |-> data[column], err |-> "nil"]
    ELSE [value |-> <<>>, err |-> "can't get value"]

\* Result.Exist(column): whether result.data has the key; it has no error to
\* return (a nil map, as in Result{}, has no key)
ExistNonEmpty(data, column) ==
    [value |-> (column \in DOMAIN data /\ data[column] # <<>>), err |-> "nil"]
Exist(data, column) == [value |-> column \in DOMAIN data, err |-> "nil"]

\* the value of a decimal digit, -1 for another character
DigitOf(ch) ==
    CASE ch = "0" -> 0 [] ch = "1" -> 1 [] ch = "2" -> 2 [] ch = "3" -> 3
      [] ch = "4" -> 4 [] ch = "5" -> 5 [] ch = "6" -> 6 [] ch = "7" -> 7
      [] ch = "8" -> 8 [] ch = "9" -> 9 [] OTHER -> -1
\* the largest value of bitSize bits
MaxUint(bitSize) == 2 ^ bitSize - 1

\* strconv.ParseUint(s, 10, bitSize), its loop from the character at place i
\* on with n read so far: a character that is no digit is a syntax error, a
\* value above the largest one a range error (with the largest value)
RECURSIVE ParseFrom(_, _, _, _)
ParseFrom(s, i, n, bitSize) ==
    IF i > Len(s) THEN [n |-> n, err |-> "nil"]
    ELSE IF DigitOf(s[i]) < 0 THEN [n |-> 0, err |-> "syntax"]
    ELSE IF n * 10 + DigitOf(s[i]) > MaxUint(bitSize)
    THEN [n |-> MaxUint(bitSize), err |-> "range"]
    ELSE ParseFrom(s, i + 1, n * 10 + DigitOf(s[i]), bitSize)
\* strconv.ParseUint(s, 10, bitSize): the empty string is a syntax error
ParseUint(s, bitSize) ==
    IF Len(s) = 0 THEN [n |-> 0, err |-> "syntax"] ELSE ParseFrom(s, 1, 0, bitSize)

\* Result.getUInt(column, bitSize): the error of String, or the number
\* ParseUint gives and, when it fails, an error made of its error
getUInt(data, column, bitSize) ==
    LET s == String(data, column) IN
    IF s.err # "nil"
    THEN [value |-> 0, err |-> s.err]
    ELSE LET p == ParseUint(s.value, bitSize) IN
         [value |-> p.n, err |-> IF p.err # "nil" THEN "can't convert value" ELSE "nil"]

\* Result.Bool(column)
BoolOfNonZero(data, column) ==
    LET i == getUInt(data, column, 8) IN
    IF i.err # "nil" THEN [value |-> FALSE, err |-> i.err]
    ELSE [value |-> i.value # 0, err |-> "nil"]
Bool(data, column) ==
    LET i == getUInt(data, column, 8) IN
    IF i.err # "nil" THEN [value |-> FALSE, err |-> i.err]
    ELSE [value |-> i.value = 1, err |-> "nil"]

\* Result.UInt8(column)
UInt8(data, column) == getUInt(data, column, 8)

\* []byte(value): the bytes of a text, a digit is the byte 48 + its value,
\* `a` the byte 97
ByteOf(ch) == IF DigitOf(ch) >= 0 THEN 48 + DigitOf(ch) ELSE 97
BytesOf(value) == [i \in 1..Len(value) |-> ByteOf(value[i])]

\* Result.Bytes(column): the error of String with nil bytes, or the bytes of
\* the cell
ResultBytes(data, column) ==
    LET s == String(data, column) IN
    IF s.err # "nil" THEN [value |-> <<>>, err |-> s.err]
    ELSE [value |-> BytesOf(s.value), err |-> "nil"]

\* the accessors of Result that are called; Columns() takes no column
Accessors == {"String", "UInt8", "Bool", "Exist", "Bytes", "Columns"}
Access(call, data, column) ==
    CASE call = "String" -> String(data, column)
      [] call = "UInt8" -> UInt8(data, column)
      [] call = "Bool" -> Bool(data, column)
      [] call = "Exist" -> Exist(data, column)
      [] call = "Bytes" -> ResultBytes(data, column)
      [] call = "Columns" -> [value |-> Columns(data), err |-> "nil"]

\* Iter.Close(). The receiver is a value: iter.isClosed = true is assigned in
\* the copy the call works on, the Iter of the caller stays as it was.
IterCloseClearing(it, rc) ==
    [iter |-> [it EXCEPT !.columns = <<>>],
     rc |-> IF ~it.isClosed THEN [rc EXCEPT !.closes = @ + 1] ELSE rc]
IterClose(it, rc) ==
    [iter |-> it,
     rc |-> IF ~it.isClosed THEN [rc EXCEPT !.closes = @ + 1] ELSE rc]

\* Iter.read()
IterRead(it, rc, choice) ==
    LET r == IF choice = "closed"
             THEN [bytes |-> <<>>, err |-> "closed", rc |-> rc]
             ELSE ReadBytes(rc, "\n")
        l == Len(r.bytes)
        bytes == IF l > 0 THEN SubSeq(r.bytes, 1, l - 1) ELSE r.bytes
    IN  IF r.err = "EOF"
        THEN LET c == IterClose([it EXCEPT !.err = "nil"], r.rc) IN
             [iter |-> c.iter, rc |-> c.rc, bytes |-> bytes, hasMore |-> FALSE, met |-> "EOF"]
        ELSE IF r.err # "nil"
        THEN [iter |-> [it EXCEPT !.err = r.err], rc |-> r.rc, bytes |-> bytes,
              hasMore |-> FALSE, met |-> r.err]
        ELSE [iter |-> [it EXCEPT !.err = "nil"], rc |-> r.rc, bytes |-> bytes,
              hasMore |-> TRUE, met |-> "line"]

\* Iter.Next(). matches[index] with index >= len(matches) panics; the row is
\* then never delivered.
IterNextDefaulting(it, rc, choice) ==
    LET r == IterRead(it, rc, choice)
        matches == Split(r.bytes, "\t")
    IN  IF ~r.hasMore
        THEN [iter |-> r.iter, rc |-> r.rc, ret |-> "false", met |-> r.met]
        ELSE [iter |-> [r.iter EXCEPT !.Result =
                           [c \in DOMAIN it.columns |->
                               IF it.columns[c] >= Len(matches) THEN <<>>
                               ELSE matches[it.columns[c] + 1]]],
              rc |-> r.rc, ret |-> "true", met |-> r.met]
IterNext(it, rc, choice) ==
    LET r == IterRead(it, rc, choice)
        matches == Split(r.bytes, "\t")
    IN  IF ~r.hasMore
        THEN [iter |-> r.iter, rc |-> r.rc, ret |-> "false", met |-> r.met]
        ELSE IF \E c \in DOMAIN it.columns : it.columns[c] >= Len(matches)
        THEN [iter |-> [r.iter EXCEPT !.Result = <<>>], rc |-> r.rc,
              ret |-> "panic", met |-> r.met]
        ELSE [iter |-> [r.iter EXCEPT !.Result =
                           [c \in DOMAIN it.columns |-> matches[it.columns[c] + 1]]],
              rc |-> r.rc, ret |-> "true", met |-> r.met]

\* Conn.ForcedFetch(query), from the result of doQuery on: queryOk says
\* whether doQuery gave the stream rc or an error
NoHeaderWhenEmpty(r) == ~r.hasMore /\ r.bytes = <<>>
NoHeader(r) == ~r.hasMore
ForcedFetch(rc, queryOk) ==
    IF ~queryOk
    THEN [iter |-> NewIter, rc |-> rc, err |-> "doQuery", met |-> "none"]
    ELSE LET r == IterRead(NewIter, rc, "stream") IN
         IF NoHeader(r)
         THEN [iter |-> r.iter, rc |-> r.rc, err |-> "can't get columns names",
               met |-> r.met]
         ELSE [iter |-> [r.iter EXCEPT !.columns = ColumnsOf(Split(r.bytes, "\t"))],
               rc |-> r.rc, err |-> "nil", met |-> r.met]

\* Conn.ForcedFetchOne(query). The deferred iter.Close() works on the copy of
\* iter taken at the defer statement.
ForcedFetchOneNoClose(rc, queryOk) ==
    LET f == ForcedFetch(rc, queryOk) IN
    IF f.err # "nil"
    THEN [iter |-> f.iter, rc |-> f.rc, Result |-> <<>>, err |-> f.err,
          nexts |-> 0, ret |-> "none", met |-> f.met]
    ELSE LET n == IterNext(f.iter, f.rc, "stream") IN
         [iter |-> n.iter, rc |-> n.rc,
          Result |-> IF n.ret = "true" THEN n.iter.Result ELSE <<>>,
          err |-> IF n.ret = "panic" THEN "panic" ELSE "nil",
          nexts |-> 1, ret |-> n.ret, met |-> n.met]
ForcedFetchOne(rc, queryOk) ==
    LET f == ForcedFetch(rc, queryOk) IN
    IF f.err # "nil"
    THEN [iter |-> f.iter, rc |-> f.rc, Result |-> <<>>, err |-> f.err,
          nexts |-> 0, ret |-> "none", met |-> f.met]
    ELSE LET n == IterNext(f.iter, f.rc, "stream")
             c == IterClose(f.iter, n.rc)
         IN  [iter |-> n.iter, rc |-> c.rc,
              Result |-> IF n.ret = "true" THEN n.iter.Result ELSE <<>>,
              err |-> IF n.ret = "panic" THEN "panic" ELSE "nil",
              nexts |-> 1, ret |-> n.ret, met |-> n.met]

\* a response stream of any content, no Iter yet
InitIter ==
    /\ maxRequests = 0
    /\ InitLimiter
    /\ InitCallers(MaxCalls)
    /\ readCloser \in {[body |-> d, data |-> d, tail |-> t, closes |-> 0] :
                         d \in Streams, t \in Tails}
    /\ iter = NewIter
    /\ phase = "new"
    /\ ret = "none"
    /\ met = "none"
    /\ fetchErr = "nil"
    /\ one = [Result |-> <<>>, err |-> "nil", nexts |-> 0]
    /\ got = NoGot
    /\ taken = NoTaken
    /\ NoQuery
    /\ NoText

\* iter, err := conn.ForcedFetch(query)
CallForcedFetch(queryOk) ==
    /\ phase = "new"
    /\ \E f \in {ForcedFetch(readCloser, queryOk)} :
        /\ iter' = f.iter
        /\ readCloser' = f.rc
        /\ fetchErr' = f.err
        /\ met' = f.met
        /\ phase' = IF f.err = "nil" THEN "iter" ELSE "failed"
    /\ UNCHANGED <<ret, one, got, taken, limVars, callVars, qryVars>>

\* A Result is a struct whose field data is a map: a copy of it shares the
\* map. What a copy held by the caller has as its map after a Next() of the
\* Iter: Next() assigns iter.Result = Result{} and a map made anew, the map of
\* the copy is not written.
HeldAfterNextRefilled(held, n) == IF n.ret = "true" THEN n.iter.Result ELSE held
HeldAfterNext(held, n) == held

\* row := iter.Result, after a Next() that returned true
TakeResult ==
    /\ phase = "iter"
    /\ ret = "true"
    /\ ~taken.has
    /\ taken' = [has |-> TRUE, data |-> iter.Result, was |-> iter.Result,
                 at |-> Len(readCloser.body) - Len(readCloser.data)]
    /\ UNCHANGED <<readCloser, iter, phase, ret, met, fetchErr, one, got, limVars,
                   callVars, qryVars>>

\* iter.Next()
CallNext(choice) ==
    /\ phase = "iter"
    /\ readCloser.closes < MaxCloses
    /\ choice \in ReadChoices(readCloser)
    /\ \E n \in {IterNext(iter, readCloser, choice)} :
        /\ iter' = n.iter
        /\ readCloser' = n.rc
        /\ ret' = n.ret
        /\ met' = n.met
        /\ taken' = [taken EXCEPT !.data = HeldAfterNext(@, n)]
    /\ got' = NoGot
    /\ UNCHANGED <<phase, fetchErr, one, limVars, callVars, qryVars>>

\* iter.Close()
CallClose ==
    /\ phase = "iter"
    /\ readCloser.closes < MaxCloses
    /\ \E c \in {IterClose(iter, readCloser)} :
        /\ iter' = c.iter
        /\ readCloser' = c.rc
    /\ got' = NoGot
    /\ UNCHANGED <<phase, ret, met, fetchErr, one, taken, limVars, callVars, qryVars>>

\* result, err := conn.ForcedFetchOne(query)
CallForcedFetchOne(queryOk) ==
    /\ phase = "new"
    /\ \E f \in {ForcedFetchOne(readCloser, queryOk)} :
        /\ iter' = f.iter
        /\ readCloser' = f.rc
        /\ fetchErr' = IF f.nexts = 0 THEN f.err ELSE "nil"
        /\ ret' = f.ret
        /\ met' = f.met
        /\ one' = [Result |-> f.Result, err |-> f.err, nexts |-> f.nexts]
        /\ phase' = "one"
    /\ UNCHANGED <<got, taken, limVars, callVars, qryVars>>

\* iter.Result.String(column), iter.Result.UInt8(column), ...: the receiver
\* is a value and the call only reads its map
CallAccessorDroppingRow(call, column) ==
    /\ phase \in {"iter", "row"}
    /\ \E a \in {Access(call, iter.Result, column)} :
        /\ got' = [call |-> call, column |-> column, value |-> a.value, err |-> a.err]
        /\ iter' = IF a.err # "nil" THEN [iter EXCEPT !.Result = <<>>] ELSE iter
    /\ UNCHANGED <<readCloser, phase, ret, met, fetchErr, one, taken, limVars, callVars,
                   qryVars>>
CallAccessor(call, column) ==
    /\ phase \in {"iter", "row"}
    /\ \E a \in {Access(call, iter.Result, column)} :
        got' = [call |-> call, column |-> column, value |-> a.value, err |-> a.err]
    /\ UNCHANGED <<readCloser, iter, phase, ret, met, fetchErr, one, taken, limVars, callVars,
                   qryVars>>

\* iter.Err()
CallErr ==
    /\ phase = "iter"
    /\ got' = [call |-> "Err", column |-> <<>>, value |-> IterErr(iter), err |-> "nil"]
    /\ UNCHANGED <<readCloser, iter, phase, ret, met, fetchErr, one, taken, limVars, callVars,
                   qryVars>>

\* the columns asked of a Result of the stream: the names "" and "a"
AskedOfStream == {<<>>, <<"a">>}

NextIter ==
    \/ \E queryOk \in BOOLEAN : CallForcedFetch(queryOk)
    \/ CallClose
    \/ \E choice \in {"stream", "closed"} : CallNext(choice)
    \/ \E queryOk \in BOOLEAN : CallForcedFetchOne(queryOk)
    \/ \E call \in {"String", "UInt8"}, column \in AskedOfStream : CallAccessor(call, column)
    \/ CallErr
    \/ TakeResult

\* one response stream and the Iter over it
SpecIter == InitIter /\ [][NextIter]_vars

\* One Result and the accessors called on it. A cell is a sequence of
\* characters: digits and "a", any character that is no digit.
CellChars == {"0", "1", "2", "5", "6", "a"}
CellTexts == UNION {[1..n -> CellChars] : n \in 0..MaxCellLen}
\* Result{} (no column), or the Result of a row under the header `c`
Rows == {<<>>} \cup {[c \in {<<"c">>} |-> cell] : cell \in CellTexts}
\* the columns asked of it: `c` and a name the header does not have
AskedOfRow == {<<"c">>, <<"d">>}

\* an Iter has yielded a Result
InitAccess ==
    /\ maxRequests = 0
    /\ InitLimiter
    /\ InitCallers(MaxCalls)
    /\ readCloser = [body |-> <<>>, data |-> <<>>, tail |-> "EOF", closes |-> 0]
    /\ iter \in {[NewIter EXCEPT !.Result = row] : row \in Rows}
    /\ phase = "row"
    /\ ret = "none"
    /\ met = "none"
    /\ fetchErr = "nil"
    /\ one = [Result |-> <<>>, err |-> "nil", nexts |-> 0]
    /\ got = NoGot
    /\ taken = NoTaken
    /\ NoQuery
    /\ NoText

NextAccess == \E call \in Accessors, column \in AskedOfRow : CallAccessor(call, column)

\* one Result, any accessor calls on it
SpecAccess == InitAccess /\ [][NextAccess]_vars

\* =============================================================== Part III
\* Conn.doQuery, one call. What client.Do gives at each attempt is the input.
Statuses == {200, 204, 500}
HtmlTokens == {"<html>", "<title>", "</title>", "</html>"}
\* response bodies: empty, plain text, an HTML page with a title, the page of
\* a memory-limit exception, a page without a title
MemoryLimitPage == <<"<html>", "<title>", "Memory limit", "</title>", "</html>">>
Bodies ==
    {<<>>, <<"B1">>, <<"B2">>,
     <<"<html>", "<title>", "T1", "</title>", "</html>">>,
     MemoryLimitPage,
     <<"<html>", "</html>">>}
\* messages of the errors client.Do returns
TransportMsgs == {<<"E1">>, <<"E2">>, <<"Memory limit">>}

\* Content-Encoding of a response: the server compresses only when asked to
Encodings(acceptGzip) == IF acceptGzip THEN {"", "gzip"} ELSE {""}

\* res, err = client.Do(req): an error and no response, or a response (body
\* is the text of the response, decoded when the response is compressed)
DoOutcomes(acceptGzip) ==
    {[res |-> NilRes, err |-> ErrorsNew(m)] : m \in TransportMsgs}
    \cup {[res |-> [isNil |-> FALSE, status |-> st, encoding |-> e, body |-> b],
           err |-> Nil] :
             st \in Statuses, e \in Encodings(acceptGzip), b \in Bodies}

\* timeout += t in int32
Add32(a, b) ==
    IF a > MaxInt32 - b THEN (a - MaxInt32 - 1) + (b - MaxInt32 - 1) ELSE a + b
\* `if ... > 0`: the test under which a knob is counted and transmitted
IsSetOrZero(v) == v >= 0
IsSet(v) == v > 0
Positive(t) == IF IsSet(t) THEN t ELSE 0

\* the request the loop body builds: the options of the URL, client.Timeout
\* in seconds (0: not set), the Accept-Encoding: gzip header
Request(mem, connect, send, receive, comp) ==
    LET timeout == Add32(Add32(Positive(connect), Positive(send)), Positive(receive))
        knobs == [max_memory_usage |-> mem, connect_timeout |-> connect,
                  send_timeout |-> send, receive_timeout |-> receive,
                  enable_http_compression |-> (IF comp = 1 THEN comp ELSE 0)]
    IN  [built |-> TRUE,
         options |-> [n \in {k \in DOMAIN knobs : IsSet(knobs[k])} |-> knobs[n]],
         timeout |-> Positive(timeout),
         acceptGzip |-> (comp = 1)]

\* getReader(res): a gzip reader over res.Body for a gzip response, else
\* res.Body itself
getReader(r) == IF r.encoding = "gzip" THEN "gzip" ELSE "body"

\* strings.Contains(err.Error(), "Memory limit")
ContainsMemoryLimit(msg) == \E i \in 1..Len(msg) : msg[i] = "Memory limit"

\* regexp "<title>([^<]+)</title>": the places of text where it matches
TitleMatches(text) ==
    {i \in 1..(Len(text) - 2) :
        /\ text[i] = "<title>"
        /\ text[i + 1] \notin HtmlTokens
        /\ text[i + 2] = "</title>"}

\* handleErrStatus(res): the error it returns, or a panic (text[0] of an
\* empty body, list[0] when the page has no title)
handleErrStatus(r) ==
    IF r.status # 200
    THEN IF r.body = <<>>
         THEN [panic |-> TRUE, err |-> Nil]
         ELSE IF Head(r.body) \in HtmlTokens
         THEN IF TitleMatches(r.body) = {}
              THEN [panic |-> TRUE, err |-> Nil]
              ELSE LET i == CHOOSE j \in TitleMatches(r.body) :
                                \A k \in TitleMatches(r.body) : j <= k
                   IN  [panic |-> FALSE, err |-> ErrorsNew(SubSeq(r.body, i, i + 2))]
         ELSE [panic |-> FALSE, err |-> ErrorsNew(r.body)]
    ELSE [panic |-> FALSE, err |-> Nil]

\* what doQuery returns
ReturnStream(k, reader) ==
    [kind |-> "stream", attempt |-> k, reader |-> reader, wrap |-> "", cause |-> Nil]
ReturnError(wrap, e) ==
    [kind |-> "error", attempt |-> 0, reader |-> "", wrap |-> wrap, cause |-> e]
Panics == [kind |-> "panic", attempt |-> 0, reader |-> "", wrap |-> "", cause |-> Nil]

\* the values of conn.protocol: the one New() sets, and the empty text, with
\* which the URL of the request has no scheme
Protocols == {"https", ""}

\* http.NewRequest("POST", urlStr, ...) with urlStr = conn.protocol + "://" +
\* ...: it fails when url.Parse(urlStr) does, as for a missing scheme
URLParsesAlways(p) == TRUE
URLParses(p) == p # ""

\* Conn.Protocol(protocol)
Protocol(p) ==
    /\ protocol' = p
    /\ protocol' # protocol
    /\ UNCHANGED <<maxMemoryUsage, connectTimeout, sendTimeout, receiveTimeout, compression>>
    /\ UNCHANGED <<attemptsAmount, attemptWait, attempts, err, res, log, sleeps, dpc, bodyVars,
                   result, req, called>>
    /\ UNCHANGED <<limVars, callVars, iterVars, fmtVars>>

\* a connection with any retry policy, doQuery is entered
InitQuery ==
    /\ maxRequests = 0
    /\ InitLimiter
    /\ InitCallers(MaxCalls)
    /\ NoIter
    /\ maxMemoryUsage = -1
    /\ connectTimeout = -1
    /\ sendTimeout = -1
    /\ receiveTimeout = -1
    /\ compression \in {-1, 0, 1}
    /\ protocol \in Protocols
    /\ req = NoRequest
    /\ called = NoCall
    /\ NoText
    /\ attemptsAmount \in 0..MaxAttempts
    /\ attemptWait \in 0..MaxWait
    /\ attempts = 0
    /\ err = Nil
    /\ res = NilRes
    /\ log = <<>>
    /\ sleeps = <<>>
    /\ dpc = "loop"
    /\ result = NoResult
    /\ NoBodies

\* if attempts > 0 { time.Sleep(attempts * conn.attemptWait seconds) }: the
\* sleeps, in seconds, before the attempt made after `done` attempts
SleepBeforeEvery(done, wait) == <<done * wait>>
SleepBefore(done, wait) == IF done > 0 THEN <<done * wait>> ELSE <<>>

\* reader.Close() on what getReader gave for a response whose res.Body is in
\* the state body: Close of a gzip.Reader leaves the reader it reads from as
\* it is, Close of res.Body closes it
CloseReader(reader, body) == IF reader = "gzip" THEN body ELSE "closed"

\* res.Body after one pass through the loop: no body when client.Do failed;
\* with more than one attempt allowed handleErrStatus has run, and for a
\* status other than 200 its deferred reader.Close() (also when it panics)
BodyInLoop(o, amount) ==
    IF o.res.isNil THEN "none"
    ELSE IF amount > 1 /\ o.res.status # 200
    THEN CloseReader(getReader(o.res), "open")
    ELSE "open"

\* one pass through the body of `for attempts < attemptsAmount`
DoAttempt(o) ==
    /\ dpc = "loop"
    /\ attempts < attemptsAmount
    /\ IF ~URLParses(protocol)
       THEN \* req, err = http.NewRequest(...); if err != nil { return nil, ... }
            /\ req' = NoRequest
            /\ err' = ErrorsNew(<<"parse">>)
            /\ dpc' = "done"
            /\ result' = ReturnError("Can't connect to host", ErrorsNew(<<"parse">>))
            /\ UNCHANGED <<sleeps, attempts, log, res, bodyVars>>
       ELSE /\ req' = Request(maxMemoryUsage, connectTimeout, sendTimeout, receiveTimeout,
                              compression)
            /\ sleeps' = sleeps \o SleepBefore(attempts, attemptWait)
            /\ attempts' = attempts + 1
            /\ log' = Append(log, o)
            /\ res' = o.res
            /\ IF attemptsAmount > 1
               THEN IF ~o.err.isNil
                    THEN /\ err' = o.err
                         /\ IF ContainsMemoryLimit(o.err.msg)
                            THEN /\ dpc' = "done"
                                 /\ result' = ReturnError("Catch warning", o.err)
                            ELSE UNCHANGED <<dpc, result>>
                    ELSE LET h == handleErrStatus(o.res) IN
                         IF h.panic
                         THEN /\ err' = o.err
                              /\ dpc' = "done"
                              /\ result' = Panics
                         ELSE IF ~h.err.isNil
                         THEN /\ err' = h.err
                              /\ UNCHANGED <<dpc, result>>
                         ELSE /\ err' = h.err
                              /\ dpc' = "done"
                              /\ result' = ReturnStream(attempts', getReader(o.res))
               ELSE /\ err' = o.err
                    /\ UNCHANGED <<dpc, result>>
            /\ bodies' = Append(bodies, BodyInLoop(o, attemptsAmount))
            /\ handed' = IF result'.kind = "stream" THEN "open" ELSE handed
    /\ UNCHANGED <<attemptsAmount, attemptWait, cfgVars, called, limVars, callVars,
                   iterVars, fmtVars>>

\* the statements after the loop
AfterLoop ==
    /\ dpc = "loop"
    /\ attempts >= attemptsAmount
    /\ dpc' = "done"
    /\ IF ~err.isNil
       THEN /\ result' = ReturnError("Can't do request to host", err)
            /\ UNCHANGED err
       ELSE IF res.isNil
       THEN /\ result' = Panics
            /\ UNCHANGED err
       ELSE LET h == handleErrStatus(res) IN
            IF h.panic
            THEN /\ result' = Panics
                 /\ UNCHANGED err
            ELSE IF ~h.err.isNil
            THEN /\ result' = ReturnError("Catch error", h.err)
                 /\ err' = h.err
            ELSE /\ result' = ReturnStream(attempts, "body")
                 /\ err' = h.err
    /\ bodies' = IF err.isNil /\ ~res.isNil /\ res.status # 200
                  THEN [bodies EXCEPT ![Len(bodies)] = CloseReader(getReader(res), @)]
                  ELSE bodies
    /\ handed' = IF result'.kind = "stream" THEN "open" ELSE handed
    /\ UNCHANGED <<attemptsAmount, attemptWait, attempts, res, log, sleeps,
                   cfgVars, req, called, limVars, callVars, iterVars, fmtVars>>

\* the caller closes the stream doQuery returned: iter.Close(), or the
\* deferred reader.Close() of ForcedExec
CloseStream ==
    /\ dpc = "done"
    /\ result.kind = "stream"
    /\ handed = "open"
    /\ handed' = "closed"
    /\ bodies' = [bodies EXCEPT ![result.attempt] = CloseReader(result.reader, @)]
    /\ UNCHANGED <<attemptsAmount, attemptWait, attempts, err, res, log, sleeps, dpc,
                   result, cfgVars, req, called>>
    /\ UNCHANGED <<limVars, callVars, iterVars, fmtVars>>

NextQuery ==
    \/ \E o \in DoOutcomes(compression = 1) : DoAttempt(o)
    \/ AfterLoop
    \/ CloseStream
    \/ \E p \in Protocols : Protocol(p)

\* one call of doQuery, the retry policy stays as set, the protocol may be
\* set anew at any time
SpecQuery == InitQuery /\ [][NextQuery]_vars

\* ================================================================ Part IV
\* The setters of Conn and the requests doQuery makes of the configuration.
\* const GigaByte = 1024 * MegaByte
GigaByte == 1073741824

\* a value of Go's 64-bit int: g * GigaByte + b
GoInt(g, b) == [g |-> g, b |-> b]
IsNegative(x) == x.g < 0 \/ (x.g = 0 /\ x.b < 0)
\* int32(x): the low 32 bits of x, as a signed number
Int32(x) ==
    LET k == x.g % 4
    IN  IF k < 2 THEN k * GigaByte + x.b ELSE (k - 4) * GigaByte + x.b

\* arguments of the setters: seconds, attempts, bytes (small numbers and whole
\* gigabytes)
Seconds == {GoInt(0, v) : v \in -1..MaxSeconds}
Amounts == {GoInt(0, v) : v \in -1..MaxAttempts}
Waits == {GoInt(0, v) : v \in -1..MaxWait}
Limits == {GoInt(0, v) : v \in -1..1} \cup {GoInt(k, 0) : k \in 1..MaxGigaBytes}

\* a setter is called with args
Called(name, args) ==
    /\ called.n < MaxSets
    /\ called' = [name |-> name, arg |-> args,
                  negative |-> (\E i \in 1..Len(args) : IsNegative(args[i])),
                  n |-> called.n + 1]

\* Conn.Attempts(amount, wait)
Attempts(amount, wait) ==
    /\ Called("Attempts", <<amount, wait>>)
    /\ attemptsAmount' = U32(Int32(amount))
    /\ attemptWait' = U32(Int32(wait))
    /\ UNCHANGED <<cfgVars, attempts, err, res, log, sleeps, dpc, result, bodyVars, req>>
    /\ UNCHANGED <<limVars, callVars, iterVars, fmtVars>>

\* Conn.MaxMemoryUsage(limit)
MaxMemoryUsage(limit) ==
    /\ Called("MaxMemoryUsage", <<limit>>)
    /\ maxMemoryUsage' = IF IsNegative(limit) THEN maxMemoryUsage ELSE Int32(limit)
    /\ UNCHANGED <<connectTimeout, sendTimeout, receiveTimeout, compression, protocol>>
    /\ UNCHANGED <<attemptsAmount, attemptWait, attempts, err, res, log, sleeps, dpc, bodyVars,
                   result, req>>
    /\ UNCHANGED <<limVars, callVars, iterVars, fmtVars>>

\* Conn.ConnectTimeout(timeout)
ConnectTimeout(timeout) ==
    /\ Called("ConnectTimeout", <<timeout>>)
    /\ connectTimeout' = IF IsNegative(timeout) THEN connectTimeout ELSE Int32(timeout)
    /\ UNCHANGED <<maxMemoryUsage, sendTimeout, receiveTimeout, compression, protocol>>
    /\ UNCHANGED <<attemptsAmount, attemptWait, attempts, err, res, log, sleeps, dpc, bodyVars,
                   result, req>>
    /\ UNCHANGED <<limVars, callVars, iterVars, fmtVars>>

\* Conn.SendTimeout(timeout)
SendTimeout(timeout) ==
    /\ Called("SendTimeout", <<timeout>>)
    /\ sendTimeout' = IF IsNegative(timeout) THEN sendTimeout ELSE Int32(timeout)
    /\ UNCHANGED <<maxMemoryUsage, connectTimeout, receiveTimeout, compression, protocol>>
    /\ UNCHANGED <<attemptsAmount, attemptWait, attempts, err, res, log, sleeps, dpc, bodyVars,
                   result, req>>
    /\ UNCHANGED <<limVars, callVars, iterVars, fmtVars>>

\* Conn.Compression(compression)
Compression(on) ==
    /\ Called("Compression", <<GoInt(0, IF on THEN 1 ELSE 0)>>)
    /\ compression' = IF on THEN 1 ELSE 0
    /\ UNCHANGED <<maxMemoryUsage, connectTimeout, sendTimeout, receiveTimeout, protocol>>
    /\ UNCHANGED <<attemptsAmount, attemptWait, attempts, err, res, log, sleeps, dpc, bodyVars,
                   result, req>>
    /\ UNCHANGED <<limVars, callVars, iterVars, fmtVars>>

\* Conn.ReceiveTimeout(timeout)
ReceiveTimeout(timeout) ==
    /\ Called("ReceiveTimeout", <<timeout>>)
    /\ receiveTimeout' = Int32(timeout)
    /\ UNCHANGED <<maxMemoryUsage, connectTimeout, sendTimeout, compression, protocol>>
    /\ UNCHANGED <<attemptsAmount, attemptWait, attempts, err, res, log, sleeps, dpc, bodyVars,
                   result, req>>
    /\ UNCHANGED <<limVars, callVars, iterVars, fmtVars>>

\* doQuery is entered (by ForcedExec, ForcedFetch, ...)
EnterDoQuery ==
    /\ dpc \in {"off", "done"}
    /\ dpc' = "loop"
    /\ attempts' = 0
    /\ err' = Nil
    /\ res' = NilRes
    /\ log' = <<>>
    /\ sleeps' = <<>>
    /\ result' = NoResult
    /\ bodies' = <<>>
    /\ handed' = "none"
    /\ UNCHANGED <<attemptsAmount, attemptWait, cfgVars, req, called>>
    /\ UNCHANGED <<limVars, callVars, iterVars, fmtVars>>

\* the server answers every request with status 200 and one line
Answers200(acceptGzip) ==
    {o \in DoOutcomes(acceptGzip) :
        o.err.isNil /\ o.res.status = 200 /\ o.res.body = <<"B1">>}

NextConfig ==
    \/ \E amount \in Amounts, wait \in Waits : Attempts(amount, wait)
    \/ \E limit \in Limits : MaxMemoryUsage(limit)
    \/ \E timeout \in Seconds : ConnectTimeout(timeout)
    \/ \E timeout \in Seconds : SendTimeout(timeout)
    \/ \E on \in BOOLEAN : Compression(on)
    \/ \E timeout \in Seconds : ReceiveTimeout(timeout)
    \/ \E p \in Protocols : Protocol(p)
    \/ EnterDoQuery
    \/ \E o \in Answers200(compression = 1) : DoAttempt(o)
    \/ AfterLoop

\* New(), then setter calls and queries on the connection
SpecConfig == Init /\ [][NextConfig]_vars

\* ================================================================= Part V
\* The text of the query that the entry points give to doQuery. A text is a
\* sequence of pieces: "F" is the word FORMAT, "w" a letter or digit, " " a
\* space, ";" a semicolon, "x" any other character.
Pieces == {"x", "F", " ", ";", "w"}
Alnum == {"F", "w"}
Queries == UNION {[1..n -> Pieces] : n \in 0..MaxQueryLen}
\* " FORMAT TabSeparatedWithNames"
Directive == <<" ", "F", " ", "w">>

\* (FORMAT [A-Za-z0-9]+)
IsDirectiveNever(u) == FALSE
IsDirective(u) ==
    /\ Len(u) >= 3 /\ u[1] = "F" /\ u[2] = " "
    /\ \A j \in 3..Len(u) : u[j] \in Alnum
\*  *;? *
IsEnd(v) ==
    /\ \A j \in 1..Len(v) : v[j] \in {" ", ";"}
    /\ Cardinality({j \in 1..Len(v) : v[j] = ";"}) <= 1
\* the regexp "(FORMAT [A-Za-z0-9]+)? *;? *$" matches text from place p to
\* the end of text
MatchesFrom(text, p) ==
    \E i \in (p - 1)..Len(text) :
        /\ i = p - 1 \/ IsDirective(SubSeq(text, p, i))
        /\ IsEnd(SubSeq(text, i + 1, Len(text)))

\* re.ReplaceAllString(text, repl): the leftmost match, which ends at the end
\* of text (the empty match at Len(text) + 1 always exists), is replaced; the
\* empty match found next, right after that match, is not
ReplaceAllString(text, repl) ==
    LET p == CHOOSE q \in 1..(Len(text) + 1) :
                 /\ MatchesFrom(text, q)
                 /\ \A r \in 1..(q - 1) : ~MatchesFrom(text, r)
    IN  SubSeq(text, 1, p - 1) \o repl

\* some query is given to an entry point
InitFormat ==
    /\ maxRequests = 0
    /\ InitLimiter
    /\ InitCallers(MaxCalls)
    /\ NoIter
    /\ NoQuery
    /\ query \in Queries
    /\ sent = NotSent
    /\ NoEscape

\* ForcedExec(query), and Exec through it: conn.doQuery(query)
SendExec ==
    /\ sent' = [by |-> "ForcedExec", query |-> query]
    /\ UNCHANGED <<query, escVars, limVars, callVars, iterVars>>
    /\ UNCHANGED <<attemptsAmount, attemptWait, attempts, err, res, log, sleeps, dpc, bodyVars,
                   result, cfgVars, req, called>>

\* ForcedFetch(query), and Fetch, FetchOne, ForcedFetchOne through it: the
\* query is rewritten, then conn.doQuery(query)
SendFetch ==
    /\ sent' = [by |-> "ForcedFetch", query |-> ReplaceAllString(query, Directive)]
    /\ UNCHANGED <<query, escVars, limVars, callVars, iterVars>>
    /\ UNCHANGED <<attemptsAmount, attemptWait, attempts, err, res, log, sleeps, dpc, bodyVars,
                   result, cfgVars, req, called>>

NextFormat == SendExec \/ SendFetch

SpecFormat == InitFormat /\ [][NextFormat]_vars

\* ================================================================ Part VI
\* Escape and Unescape. A text is a sequence of characters: the characters
\* the two functions name, the letters that follow the backslash in the
\* escaped forms, and "x", any other character.
Backspace == "BS"
Specials == {Backspace, "\f", "\r", "\n", "\t", "'", "\\", "/", "-"}
Ordinary == {"b", "f", "r", "n", "t", "x"}
Chars == Specials \cup Ordinary
Texts == UNION {[1..n -> Chars] : n \in 0..MaxTextLen}

\* the switch of Escape on char, a string of one character; the case `''` is
\* a string of two quotes
EscapeOfPlainBackslash(char) ==
    CASE char = <<Backspace>> -> <<"\\", "b">>
      [] char = <<"\f">> -> <<"\\", "f">>
      [] char = <<"\r">> -> <<"\\", "r">>
      [] char = <<"\n">> -> <<"\\", "n">>
      [] char = <<"\t">> -> <<"\\", "t">>
      [] char = <<"'", "'">> -> <<"\\", "'">>
      [] char = <<"/">> -> <<"\\", "/">>
      [] char = <<"-">> -> <<"\\", "-">>
      [] OTHER -> char
EscapeOf(char) ==
    CASE char = <<Backspace>> -> <<"\\", "b">>
      [] char = <<"\f">> -> <<"\\", "f">>
      [] char = <<"\r">> -> <<"\\", "r">>
      [] char = <<"\n">> -> <<"\\", "n">>
      [] char = <<"\t">> -> <<"\\", "t">>
      [] char = <<"'", "'">> -> <<"\\", "'">>
      [] char = <<"\\">> -> <<"\\", "\\">>
      [] char = <<"/">> -> <<"\\", "/">>
      [] char = <<"-">> -> <<"\\", "-">>
      [] OTHER -> char

\* Escape(line): for i := 0; i < length; i++ { result += ... line[i:i+1] }
RECURSIVE EscapeFrom(_, _, _)
EscapeFrom(text, i, out) ==
    IF i >= Len(text) THEN out
    ELSE EscapeFrom(text, i + 1, out \o EscapeOf(SubSeq(text, i + 1, i + 1)))
Escape(text) == EscapeFrom(text, 0, <<>>)

\* the switch of Unescape on pair: the character an escaped form stands for;
\* "" for the default case
UnescapeOf(pair) ==
    CASE pair = <<"\\", "b">> -> Backspace
      [] pair = <<"\\", "f">> -> "\f"
      [] pair = <<"\\", "r">> -> "\r"
      [] pair = <<"\\", "n">> -> "\n"
      [] pair = <<"\\", "t">> -> "\t"
      [] pair = <<"\\", "'">> -> "'"
      [] pair = <<"\\", "\\">> -> "\\"
      [] pair = <<"\\", "/">> -> "/"
      [] pair = <<"\\", "-">> -> "-"
      [] OTHER -> ""

\* Unescape(line): for i := 0; i < length; i += 2 { ... }; the last character
\* is copied, a pair that is no escaped form gives its first character and
\* the loop goes on one character further (i--)
RECURSIVE UnescapeFrom(_, _, _)
UnescapeFrom(text, i, out) ==
    IF i >= Len(text) THEN out
    ELSE IF i >= Len(text) - 1 THEN out \o SubSeq(text, i + 1, i + 1)
    ELSE IF UnescapeOf(SubSeq(text, i + 1, i + 2)) # ""
    THEN UnescapeFrom(text, i + 2, Append(out, UnescapeOf(SubSeq(text, i + 1, i + 2))))
    ELSE UnescapeFrom(text, i + 1, out \o SubSeq(text, i + 1, i + 1))
Unescape(text) == UnescapeFrom(text, 0, <<>>)

\* some text is about to be escaped
InitEscape ==
    /\ maxRequests = 0
    /\ InitLimiter
    /\ InitCallers(MaxCalls)
    /\ NoIter
    /\ NoQuery
    /\ query = <<>>
    /\ sent = NotSent
    /\ line \in Texts
    /\ escaped = NotCalled
    /\ unescaped = NotCalled

\* escaped := Escape(line)
CallEscape ==
    /\ ~escaped.done
    /\ escaped' = [done |-> TRUE, text |-> Escape(line)]
    /\ UNCHANGED <<line, unescaped, query, sent, limVars, callVars, iterVars>>
    /\ UNCHANGED <<attemptsAmount, attemptWait, attempts, err, res, log, sleeps, dpc, bodyVars,
                   result, cfgVars, req, called>>

\* unescaped := Unescape(escaped)
CallUnescape ==
    /\ escaped.done /\ ~unescaped.done
    /\ unescaped' = [done |-> TRUE, text |-> Unescape(escaped.text)]
    /\ UNCHANGED <<line, escaped, query, sent, limVars, callVars, iterVars>>
    /\ UNCHANGED <<attemptsAmount, attemptWait, attempts, err, res, log, sleeps, dpc, bodyVars,
                   result, cfgVars, req, called>>

NextEscape == CallEscape \/ CallUnescape

\* one text, escaped and then unescaped
SpecEscape == InitEscape /\ [][NextEscape]_vars

\* ================================================================ Part IX
\* Conn.InsertBatch. The text of tsvReader is a sequence of characters, the
\* header of the query a sequence of two or three pieces.
\* fmt.Sprintf("INSERT INTO %s.%s FORMAT %s\n", ...), or with the list of the
\* columns when there are some
InsertHeader(withColumns) ==
    IF withColumns THEN <<"INSERT", "(columns)", "\n">> ELSE <<"INSERT", "\n">>

\* for { bs, err = reader.ReadBytes('\b'); if err == io.EOF { break } else if
\* err != nil { return err }; query += string(bs) }
RECURSIVE InsertLoop(_, _)
InsertLoop(rc, q) ==
    LET r == ReadBytes(rc, Backspace) IN
    IF r.err = "EOF" THEN [query |-> q, err |-> "nil"]
    ELSE IF r.err # "nil" THEN [query |-> q, err |-> r.err]
    ELSE InsertLoop(r.rc, q \o r.bytes)

\* InsertBatch(database, table, columns, format, tsvReader): the error of the
\* reader, or the query it gives to conn.Exec
InsertBatch(withColumns, text, tail) ==
    LET l == InsertLoop([body |-> text, data |-> text, tail |-> tail, closes |-> 0],
                        InsertHeader(withColumns))
    IN  IF l.err # "nil" THEN [query |-> <<>>, err |-> l.err]
        ELSE [query |-> l.query \o <<"\n">>, err |-> "nil"]

\* some text is about to be inserted
InitInsert ==
    /\ maxRequests = 0
    /\ InitLimiter
    /\ InitCallers(MaxCalls)
    /\ NoIter
    /\ NoQuery
    /\ query = <<>>
    /\ sent = NotSent
    /\ line \in Texts
    /\ escaped = NotCalled
    /\ unescaped = NotCalled

\* err := conn.InsertBatch(..., tsvReader), the text of tsvReader being line
CallInsertBatch(withColumns, tail) ==
    /\ sent = NotSent
    /\ \E b \in {InsertBatch(withColumns, line, tail)} :
        sent' = [by |-> IF b.err = "nil" THEN "InsertBatch" ELSE b.err, query |-> b.query]
    /\ UNCHANGED <<query, escVars, limVars, callVars, iterVars>>
    /\ UNCHANGED <<attemptsAmount, attemptWait, attempts, err, res, log, sleeps, dpc, bodyVars,
                   result, cfgVars, req, called>>

NextInsert == \E withColumns \in BOOLEAN, tail \in Tails : CallInsertBatch(withColumns, tail)

\* one text, given to InsertBatch
SpecInsert == InitInsert /\ [][NextInsert]_vars

\* =============================================================== Part VII
\* The accesses that the setters and doQuery make to the fields of Conn, and
\* how each is synchronized. Goroutines call the methods on one Conn; a
\* method is the sequence of its accesses and of its calls of conn.mux.
Goroutines == 1..NumGoroutines

Store(f) == [kind |-> "access", field |-> f, write |-> TRUE, atomic |-> TRUE]
Load(f) == [kind |-> "access", field |-> f, write |-> FALSE, atomic |-> TRUE]
PlainWrite(f) == [kind |-> "access", field |-> f, write |-> TRUE, atomic |-> FALSE]
PlainRead(f) == [kind |-> "access", field |-> f, write |-> FALSE, atomic |-> FALSE]
Lock == [kind |-> "lock", field |-> "mux", write |-> FALSE, atomic |-> FALSE]
Unlock == [kind |-> "unlock", field |-> "mux", write |-> FALSE, atomic |-> FALSE]

\* one pass through the loop of doQuery: the condition of the loop, the
\* loads of the knobs, the URL, the sleep (in every pass but the first), the
\* test after client.Do
DoQueryPass(first) ==
    <<Load("attemptsAmount"), Load("maxMemoryUsage"), Load("connectTimeout"),
      Load("sendTimeout"), Load("receiveTimeout"), Load("compression"),
      PlainRead("protocol")>>
    \o (IF first THEN <<>> ELSE <<PlainRead("attemptWait")>>)
    \o <<Load("attemptsAmount")>>

Methods ==
    {"Attempts", "Protocol", "MaxMemoryUsage", "ConnectTimeout", "SendTimeout",
     "Compression", "ReceiveTimeout", "doQuery"}

\* what a method does to the fields and the mutex, in program order; doQuery
\* with a first attempt that fails and a second one
StepsOf(m) ==
    CASE m = "Attempts" -> <<Store("attemptsAmount"), Store("attemptWait")>>
      [] m = "Protocol" -> <<Lock, PlainWrite("protocol"), Unlock>>
      [] m = "MaxMemoryUsage" -> <<Store("maxMemoryUsage")>>
      [] m = "ConnectTimeout" -> <<Store("connectTimeout")>>
      [] m = "SendTimeout" -> <<Store("sendTimeout")>>
      [] m = "Compression" -> <<Store("compression"), PlainRead("compression")>>
      [] m = "ReceiveTimeout" -> <<Store("receiveTimeout")>>
      [] m = "doQuery" -> DoQueryPass(TRUE) \o DoQueryPass(FALSE)

Idle == [method |-> "", at |-> 0]
\* what goroutine g is about to do
Pending(g) == StepsOf(running[g].method)[running[g].at]

\* New() has returned the Conn to goroutines that share it
InitSync ==
    /\ maxRequests = 0
    /\ requestsCounter = 0
    /\ paused = FALSE
    /\ once = FALSE
    /\ qpc = "off"
    /\ step = 0
    /\ loaded = <<>>
    /\ running = [g \in Goroutines |-> Idle]
    /\ mux = 0
    /\ InitCallers(MaxCalls)
    /\ NoIter
    /\ NoQuery
    /\ NoText

\* goroutine g calls a setter or a query method
Enter(g, m) ==
    /\ running[g] = Idle
    /\ running' = [running EXCEPT ![g] = [method |-> m, at |-> 1]]
    /\ UNCHANGED <<mux, maxRequests, requestsCounter, paused, once, qpc, step, atomVars,
                   callVars, iterVars, qryVars>>

\* goroutine g takes the next step of its method, and returns after the last
Advance(g) ==
    /\ running[g] # Idle
    /\ \/ Pending(g).kind = "access" /\ UNCHANGED mux
       \/ Pending(g).kind = "lock" /\ mux = 0 /\ mux' = g
       \/ Pending(g).kind = "unlock" /\ mux' = 0
    /\ running' = [running EXCEPT ![g] =
                       IF @.at = Len(StepsOf(@.method)) THEN Idle
                       ELSE [@ EXCEPT !.at = @ + 1]]
    /\ UNCHANGED <<maxRequests, requestsCounter, paused, once, qpc, step, atomVars,
                   callVars, iterVars, qryVars>>

NextSync ==
    \/ \E g \in Goroutines, m \in Methods : Enter(g, m)
    \/ \E g \in Goroutines : Advance(g)

\* goroutines that call the setters and the query methods of one Conn
SpecSync == InitSync /\ [][NextSync]_vars

\* ============================================================== Part VIII
\* The atomic-counter Limiter: increaseRequests, waitRequests and
\* reduceRequests work on maxRequests and requestsCounter themselves, there
\* is no queue. Exec, Fetch and FetchOne are
\*     conn.increaseRequests(); conn.waitRequests()
\*     defer conn.reduceRequests(); return conn.Force...(query)
\* Every atomic operation and every call of the composer is one step.
AtomicCallers == 1..NumAtomicCallers

\* what the steps of the atomic-counter Limiter leave alone
staysAtomic == <<once, qpc, step, outcome, stream, iterVars, qryVars, syncVars>>

InitAtomicCallers ==
    /\ pc = [p \in AtomicCallers |-> "idle"]
    /\ op = [p \in AtomicCallers |-> "none"]
    /\ outcome = [p \in AtomicCallers |-> "none"]
    /\ stream = [p \in AtomicCallers |-> "none"]
    /\ incs = [p \in AtomicCallers |-> 0]
    /\ reds = [p \in AtomicCallers |-> 0]
    /\ callsLeft = MaxAtomicCalls
    /\ requestsCounter = 0
    /\ paused = FALSE
    /\ once = FALSE
    /\ qpc = "off"
    /\ step = 0
    /\ loaded = [p \in AtomicCallers |-> 0]
    /\ NoAccess
    /\ NoIter
    /\ NoQuery
    /\ NoText

\* the zero-valued Limiter: no ceiling
InitAtomic == maxRequests = 0 /\ InitAtomicCallers

\* MaxRequests(C), C > 0, before any call
InitAtomicCeiling == maxRequests \in 1..MaxAtomicCeiling /\ InitAtomicCallers

\* a caller enters Exec (or Fetch, or FetchOne: the three begin and end
\* alike)
CallAtomic(p) ==
    /\ pc[p] = "idle"
    /\ callsLeft > 0
    /\ callsLeft' = callsLeft - 1
    /\ op' = [op EXCEPT ![p] = "Exec"]
    /\ incs' = [incs EXCEPT ![p] = 0]
    /\ reds' = [reds EXCEPT ![p] = 0]
    /\ pc' = [pc EXCEPT ![p] = "increaseRequests"]
    /\ UNCHANGED <<maxRequests, requestsCounter, paused, loaded, staysAtomic>>

\* increaseRequests: if atomic.LoadUint32(&lim.maxRequests) > 0
IncreaseLoad(p) ==
    /\ pc[p] = "increaseRequests"
    /\ pc' = [pc EXCEPT ![p] = IF maxRequests > 0 THEN "incAdd" ELSE "waitRequests"]
    /\ UNCHANGED <<maxRequests, requestsCounter, paused, loaded, op, incs, reds, callsLeft,
                   staysAtomic>>

\* atomic.AddInt32(&lim.requestsCounter, 1)
IncreaseAdd(p) ==
    /\ pc[p] = "incAdd"
    /\ requestsCounter' = requestsCounter + 1
    /\ incs' = [incs EXCEPT ![p] = @ + 1]
    /\ pc' = [pc EXCEPT ![p] = "incLoadMax"]
    /\ UNCHANGED <<maxRequests, paused, loaded, op, reds, callsLeft, staysAtomic>>

\* the left operand of the comparison: atomic.LoadUint32(&lim.maxRequests)
IncreaseLoadMax(p) ==
    /\ pc[p] = "incLoadMax"
    /\ loaded' = [loaded EXCEPT ![p] = maxRequests]
    /\ pc' = [pc EXCEPT ![p] = "incCompare"]
    /\ UNCHANGED <<maxRequests, requestsCounter, paused, op, incs, reds, callsLeft,
                   staysAtomic>>

\* if ... < uint32(atomic.LoadInt32(&lim.requestsCounter))
PauseWhen(max, counter) == max < U32(counter)
IncreaseCompare(p) ==
    /\ pc[p] = "incCompare"
    /\ pc' = [pc EXCEPT ![p] = IF PauseWhen(loaded[p], requestsCounter)
                               THEN "incPause" ELSE "waitRequests"]
    /\ loaded' = [loaded EXCEPT ![p] = 0]
    /\ UNCHANGED <<maxRequests, requestsCounter, paused, op, incs, reds, callsLeft,
                   staysAtomic>>

\* composer.GetComposer().Pause()
IncreasePause(p) ==
    /\ pc[p] = "incPause"
    /\ paused' = TRUE
    /\ pc' = [pc EXCEPT ![p] = "waitRequests"]
    /\ UNCHANGED <<maxRequests, requestsCounter, loaded, op, incs, reds, callsLeft,
                   staysAtomic>>

\* waitRequests: NeedWait returns at once when the gate is open and suspends
\* the caller when it is paused
WaitRequests(p) ==
    /\ pc[p] = "waitRequests"
    /\ pc' = [pc EXCEPT ![p] = IF paused THEN "suspended" ELSE "forced"]
    /\ UNCHANGED <<maxRequests, requestsCounter, paused, loaded, op, incs, reds, callsLeft,
                   staysAtomic>>

\* a caller suspended in NeedWait goes on once the gate is open
Awake(p) ==
    /\ pc[p] = "suspended"
    /\ ~paused
    /\ pc' = [pc EXCEPT ![p] = "forced"]
    /\ UNCHANGED <<maxRequests, requestsCounter, paused, loaded, op, incs, reds, callsLeft,
                   staysAtomic>>

\* the Force... body runs and ends, as it may; the deferred reduceRequests
\* is due
RunAtomic(p) ==
    /\ pc[p] = "forced"
    /\ pc' = [pc EXCEPT ![p] = "reduceRequests"]
    /\ UNCHANGED <<maxRequests, requestsCounter, paused, loaded, op, incs, reds, callsLeft,
                   staysAtomic>>

\* reduceRequests: if atomic.LoadUint32(&lim.maxRequests) > 0; else the call
\* returns
ReduceLoad(p) ==
    /\ pc[p] = "reduceRequests"
    /\ pc' = [pc EXCEPT ![p] = IF maxRequests > 0 THEN "redAdd" ELSE "idle"]
    /\ UNCHANGED <<maxRequests, requestsCounter, paused, loaded, op, incs, reds, callsLeft,
                   staysAtomic>>

\* atomic.AddInt32(&lim.requestsCounter, -1)
ReduceAdd(p) ==
    /\ pc[p] = "redAdd"
    /\ requestsCounter' = requestsCounter - 1
    /\ reds' = [reds EXCEPT ![p] = @ + 1]
    /\ pc' = [pc EXCEPT ![p] = "redLoadMax"]
    /\ UNCHANGED <<maxRequests, paused, loaded, op, incs, callsLeft, staysAtomic>>

\* the left operand of the comparison: atomic.LoadUint32(&lim.maxRequests)
ReduceLoadMax(p) ==
    /\ pc[p] = "redLoadMax"
    /\ loaded' = [loaded EXCEPT ![p] = maxRequests]
    /\ pc' = [pc EXCEPT ![p] = "redCompare"]
    /\ UNCHANGED <<maxRequests, requestsCounter, paused, op, incs, reds, callsLeft,
                   staysAtomic>>

\* if ... >= uint32(atomic.LoadInt32(&lim.requestsCounter)); else the call
\* returns
PlayWhen(max, counter) == max >= U32(counter)
ReduceCompare(p) ==
    /\ pc[p] = "redCompare"
    /\ pc' = [pc EXCEPT ![p] = IF PlayWhen(loaded[p], requestsCounter)
                               THEN "redPlay" ELSE "idle"]
    /\ loaded' = [loaded EXCEPT ![p] = 0]
    /\ UNCHANGED <<maxRequests, requestsCounter, paused, op, incs, reds, callsLeft,
                   staysAtomic>>

\* composer.GetComposer().Play(), and the call returns
ReducePlay(p) ==
    /\ pc[p] = "redPlay"
    /\ paused' = FALSE
    /\ pc' = [pc EXCEPT ![p] = "idle"]
    /\ UNCHANGED <<maxRequests, requestsCounter, loaded, op, incs, reds, callsLeft,
                   staysAtomic>>

AtomicStep(p) ==
    \/ IncreaseLoad(p)
    \/ IncreaseAdd(p)
    \/ IncreaseLoadMax(p)
    \/ IncreaseCompare(p)
    \/ IncreasePause(p)
    \/ WaitRequests(p)
    \/ Awake(p)
    \/ RunAtomic(p)
    \/ ReduceLoad(p)
    \/ ReduceAdd(p)
    \/ ReduceLoadMax(p)
    \/ ReduceCompare(p)
    \/ ReducePlay(p)

NextAtomicCeiling ==
    \/ \E p \in AtomicCallers : CallAtomic(p)
    \/ \E p \in AtomicCallers : AtomicStep(p)

NextAtomic ==
    \/ \E limit \in 0..MaxAtomicCeiling : MaxRequests(limit)
    \/ \E p \in AtomicCallers : CallAtomic(p)
    \/ \E p \in AtomicCallers : AtomicStep(p)

\* one connection, MaxRequests may be called at any time
SpecAtomic == InitAtomic /\ [][NextAtomic]_vars

\* one connection whose ceiling C > 0 stays as set
SpecAtomicCeiling == InitAtomicCeiling /\ [][NextAtomicCeiling]_vars

\* the same, and every caller that can take a step of its call takes one
\* (every runnable goroutine runs)
FairAtomicCeiling ==
    /\ SpecAtomicCeiling
    /\ \A p \in AtomicCallers : WF_vars(AtomicStep(p))

\* ------------------------------------------------------------------ claims
\* the throttled calls that have acquired (their increase() has returned) and
\* have not yet released (their reduce() has not been called)
InFlight == {p \in Callers : op[p] \in Throttled /\ pc[p] \in {"forced", "reduce"}}

\* C1: with a ceiling C > 0 at most C throttled calls are at the same time
\* between their acquire (waitForRest, increase) and their release (reduce).
C1_AtMostCeilingInFlight ==
    maxRequests > 0 => Cardinality(InFlight) <= maxRequests

C3_OneIncreaseOneReduce ==
    /\ requestsCounter >= 0
    /\ \A p \in Callers :
         op[p] \in Throttled =>
            /\ pc[p] \in {"waitForRest", "suspended", "increase", "resumed"}
                  => incs[p] = 0 /\ reds[p] = 0
            /\ pc[p] \in {"forced", "reduce"} => incs[p] = 1 /\ reds[p] = 0
            /\ pc[p] = "iterating" => incs[p] = 1 /\ reds[p] = 1
    /\ (/\ \A p \in Callers : pc[p] \in {"idle", "iterating"}
        /\ qpc \in {"off", "recv"})
         => requestsCounter = 0

\* the operation of a throttled call has panicked, its deferred reduce() is
\* due and the counter still holds its increase
C3_Witness ==
    \E p \in Callers :
        /\ op[p] \in Throttled /\ pc[p] = "reduce" /\ outcome[p] = "panic"
        /\ requestsCounter = 1 /\ qpc = "recv"

\* C4: whenever the ceiling is 0, no throttled call is suspended in
\* waitForRest.
C4_ZeroCeilingNeverSuspends ==
    maxRequests = 0 => \A p \in Callers : pc[p] # "suspended"

\* C5: the Forced variants never wait on the pause gate and never hand a
\* step to the queue, so they never change requestsCounter.
C5_ForcedBypass ==
    \A p \in Callers :
        op[p] \in Forced =>
            /\ pc[p] \in {"forced", "iterating"}
            /\ incs[p] = 0
            /\ reds[p] = 0

\* a ForcedFetch has returned its Iterator while the gate is paused and a
\* throttled caller is suspended
C5_Witness ==
    \E p, q \in Callers :
        /\ op[p] \in Forced /\ pc[p] = "iterating"
        /\ pc[q] = "suspended" /\ paused

\* C6 as stated: a throttled Fetch that returns an Iterator releases its slot
\* only after the Iterator has closed the stream.
C6_ReleaseAfterStreamClosed ==
    \A p \in Callers :
        op[p] = "Fetch" /\ outcome[p] = "ok" /\ reds[p] = 1
            => stream[p] = "closed"

\* C6 amended: a throttled Fetch that returns an Iterator releases its slot
\* when Fetch returns: until the reduce() the stream is open and the caller
\* has not got the Iterator, and the caller iterates with the slot released.
C6_ReleaseAtFetchReturn ==
    \A p \in Callers :
        op[p] = "Fetch" /\ outcome[p] = "ok" =>
            /\ reds[p] = 0 => stream[p] = "open" /\ pc[p] = "reduce"
            /\ pc[p] = "iterating" => reds[p] = 1

\* the caller holds the Iterator over the open stream, the slot is released
\* and the counter is back to 0
C6_Witness ==
    \E p \in Callers :
        /\ op[p] = "Fetch" /\ pc[p] = "iterating" /\ stream[p] = "open"
        /\ reds[p] = 1 /\ requestsCounter = 0 /\ qpc = "recv"

\* C7: for any sequence of Next() and Close() calls on one Iterator the
\* Close of the underlying stream is invoked at most once.
C7_StreamClosedAtMostOnce == phase = "iter" => readCloser.closes <= 1

\* C8: a Next() that meets the end of the stream returns false, leaves Err()
\* nil and has closed the stream; a Next() that meets another read error
\* returns false, leaves that error in Err() and has closed the stream too.
C8_NextAutoCloses ==
    phase = "iter" /\ ret # "none" =>
        /\ met = "EOF" =>
              ret = "false" /\ IterErr(iter) = "nil" /\ readCloser.closes >= 1
        /\ met \in {"ioerr", "closed"} =>
              ret = "false" /\ IterErr(iter) = met /\ readCloser.closes >= 1

\* C9: ForcedFetchOne calls Next() at most once; when the underlying fetch
\* succeeded the stream has been closed when it returns, with one row and
\* with no row, and with no row it returns an empty Result and a nil error.
C9_FetchOneClosesStream ==
    phase = "one" =>
        /\ one.nexts <= 1
        /\ fetchErr = "nil" => readCloser.closes >= 1
        /\ fetchErr = "nil" /\ ret = "false" => one.Result = <<>> /\ one.err = "nil"

\* ForcedFetchOne returned the first row of a stream that has more bytes
C9_Witness ==
    /\ phase = "one" /\ fetchErr = "nil" /\ ret = "true"
    /\ Len(readCloser.data) > 0 /\ readCloser.closes >= 1

\* an attempt that doQuery takes for a success / the error of a failed one
IsSuccess(o) == o.err.isNil /\ o.res.status = 200
ErrorOfAttempt(o) == IF ~o.err.isNil THEN o.err ELSE handleErrStatus(o.res).err

\* C10: with attemptsAmount = n >= 1, doQuery sends at most n requests, sends
\* none after the first attempt that succeeds and returns the stream of that
\* attempt, and when all n attempts fail it returns an error that carries the
\* error of the n-th attempt.
C10_AtMostNAttempts ==
    attemptsAmount >= 1 =>
        /\ Len(log) <= attemptsAmount
        /\ \A k \in 1..Len(log) :
             IsSuccess(log[k]) =>
                 /\ k = Len(log)
                 /\ dpc = "done" => result.kind = "stream" /\ result.attempt = k
        /\ (/\ dpc = "done"
            /\ Len(log) = attemptsAmount
            /\ \A k \in 1..Len(log) : ~IsSuccess(log[k]))
             => /\ result.kind = "error"
                /\ result.cause = ErrorOfAttempt(log[attemptsAmount])

\* C11: doQuery does not sleep before its first attempt and sleeps
\* k * attemptWait seconds before the attempt of zero-based index k >= 1; with
\* 3 attempts, of which the first two fail and the third succeeds, it has
\* slept attemptWait and 2 * attemptWait and returns the stream of the third.
C11_LinearBackoff ==
    /\ Len(sleeps) = (IF Len(log) = 0 THEN 0 ELSE Len(log) - 1)
    /\ \A k \in 1..Len(sleeps) : sleeps[k] = k * attemptWait
    /\ (/\ attemptsAmount = 3 /\ dpc = "done" /\ Len(log) = 3
        /\ ~IsSuccess(log[1]) /\ ~IsSuccess(log[2]) /\ IsSuccess(log[3]))
         => /\ sleeps = <<attemptWait, 2 * attemptWait>>
            /\ result.kind = "stream" /\ result.attempt = 3

\* 3 attempts with wait 1: two failures, then the success, after sleeps of 1
\* and 2 seconds
C11_Witness ==
    /\ attemptsAmount = 3 /\ attemptWait = 1 /\ dpc = "done"
    /\ Len(log) = 3 /\ IsSuccess(log[3])
    /\ sleeps = <<1, 2>> /\ result.kind = "stream" /\ result.attempt = 3

\* a status of the 2xx class
Is2xx(st) == st >= 200 /\ st <= 299
\* the attempt failed and the message of its error names the memory limit
MemoryLimitFailure(o) ==
    \/ ~o.err.isNil /\ ContainsMemoryLimit(o.err.msg)
    \/ /\ o.err.isNil /\ ~Is2xx(o.res.status)
       /\ ~handleErrStatus(o.res).panic
       /\ ContainsMemoryLimit(handleErrStatus(o.res).err.msg)

\* C12: with attemptsAmount > 1, an attempt that fails with a memory-limit
\* error, a transport error or a non-2xx answer with the page of a
\* memory-limit exception, is the last attempt: doQuery is done with an error.
C12_MemoryLimitAborts ==
    attemptsAmount > 1 =>
        \A k \in 1..Len(log) :
            MemoryLimitFailure(log[k]) =>
                k = Len(log) /\ dpc = "done" /\ result.kind = "error"

\* the last attempt has been made and doQuery has looked at what it gave
Handled == Len(log) > 0 /\ (attemptsAmount > 1 \/ dpc = "done")
LastAttempt == log[Len(log)]
\* the text between <title> and </title> of a page that has a title
TitleContents(text) ==
    LET i == CHOOSE j \in TitleMatches(text) : \A k \in TitleMatches(text) : j <= k
    IN  <<text[i + 1]>>

\* C13: the error derived from a non-2xx answer is, for a body that begins
\* with `<` (here: a page with a title), the text between <title> and
\* </title> without the tags, and for another (non-empty) body the body.
C13_TitleContents ==
    (/\ Handled /\ LastAttempt.err.isNil /\ ~Is2xx(LastAttempt.res.status)
     /\ LastAttempt.res.body # <<>>
     /\ Head(LastAttempt.res.body) \in HtmlTokens => TitleMatches(LastAttempt.res.body) # {})
      => /\ ~err.isNil
         /\ err.msg = (IF Head(LastAttempt.res.body) \in HtmlTokens
                       THEN TitleContents(LastAttempt.res.body)
                       ELSE LastAttempt.res.body)

\* C14: an attempt answered with a 2xx status is the last attempt, and
\* doQuery returns the stream of that answer.
C14_Every2xxSucceeds ==
    \A k \in 1..Len(log) :
        log[k].err.isNil /\ Is2xx(log[k].res.status) =>
            /\ k = Len(log)
            /\ dpc = "done" => result.kind = "stream" /\ result.attempt = k

\* C15: when compression is on and the answer that doQuery takes for the
\* success is gzip-encoded, the stream doQuery returns is the decoding one,
\* for every attemptsAmount >= 1.
C15_GzipDecoded ==
    (/\ dpc = "done" /\ result.kind = "stream" /\ compression = 1
     /\ log[result.attempt].res.encoding = "gzip")
      => result.reader = "gzip"

\* the options and the client timeout the claim asks of a request made with
\* the configuration as it is
OptionsAsked(r) ==
    /\ DOMAIN r.options \subseteq {"max_memory_usage", "connect_timeout", "send_timeout",
                                   "receive_timeout", "enable_http_compression"}
    /\ "max_memory_usage" \in DOMAIN r.options <=> maxMemoryUsage > 0
    /\ maxMemoryUsage > 0 => r.options["max_memory_usage"] = maxMemoryUsage
    /\ "connect_timeout" \in DOMAIN r.options <=> connectTimeout > 0
    /\ connectTimeout > 0 => r.options["connect_timeout"] = connectTimeout
    /\ "send_timeout" \in DOMAIN r.options <=> sendTimeout > 0
    /\ sendTimeout > 0 => r.options["send_timeout"] = sendTimeout
    /\ "receive_timeout" \in DOMAIN r.options <=> receiveTimeout > 0
    /\ receiveTimeout > 0 => r.options["receive_timeout"] = receiveTimeout
    /\ "enable_http_compression" \in DOMAIN r.options <=> compression = 1
    /\ r.timeout = (IF connectTimeout > 0 THEN connectTimeout ELSE 0)
                    + (IF sendTimeout > 0 THEN sendTimeout ELSE 0)
                    + (IF receiveTimeout > 0 THEN receiveTimeout ELSE 0)

\* C16: every request doQuery makes carries max_memory_usage, connect_timeout,
\* send_timeout and receive_timeout exactly for the fields that are > 0 and
\* enable_http_compression exactly when compression is on; its client
\* timeout is the sum of the positive timeouts (0: none is set).
C16_OnlyPositiveOptions ==
    [][attempts' = attempts + 1 => req'.built /\ OptionsAsked(req')]_vars

\* a request made with two of the three timeouts set
C16_Witness ==
    /\ req.built /\ connectTimeout = 1 /\ sendTimeout = 2 /\ receiveTimeout = -1
    /\ DOMAIN req.options = {"connect_timeout", "send_timeout"}
    /\ req.timeout = 3

\* C17: a call of MaxMemoryUsage, ConnectTimeout, SendTimeout, ReceiveTimeout
\* or Attempts with a negative argument leaves every stored field as it was.
C17_NegativeIgnored ==
    [][(called'.n = called.n + 1 /\ called'.negative)
          => UNCHANGED <<cfgVars, attemptsAmount, attemptWait>>]_vars

\* the int32 v is the number x
SameNumber(v, x) == x.g < 2 /\ v = x.g * GigaByte + x.b

\* C18: a request made after MaxMemoryUsage(limit), limit > 0 (also a limit
\* of whole gigabytes, as 4 * GigaByte), carries max_memory_usage = limit.
C18_MemoryLimitKept ==
    [][(/\ attempts' = attempts + 1
        /\ called.name = "MaxMemoryUsage"
        /\ ~IsNegative(called.arg[1]) /\ called.arg[1] # GoInt(0, 0))
          => /\ "max_memory_usage" \in DOMAIN req'.options
             /\ SameNumber(req'.options["max_memory_usage"], called.arg[1])]_vars

\* text without its trailing spaces / without one trailing semicolon /
\* without a trailing `FORMAT <word>`
StripSpaces(t) ==
    LET n == CHOOSE i \in 0..Len(t) :
                 /\ i = 0 \/ t[i] # " "
                 /\ \A j \in (i + 1)..Len(t) : t[j] = " "
    IN  SubSeq(t, 1, n)
StripSemicolon(t) ==
    IF Len(t) > 0 /\ t[Len(t)] = ";" THEN SubSeq(t, 1, Len(t) - 1) ELSE t
TrailingFormatAt(t, i) ==
    /\ i + 2 <= Len(t) /\ t[i] = "F" /\ t[i + 1] = " "
    /\ \A j \in (i + 2)..Len(t) : t[j] \in {"F", "w"}
StripFormat(t) ==
    IF \E i \in 1..Len(t) : TrailingFormatAt(t, i)
    THEN SubSeq(t, 1, (CHOOSE i \in 1..Len(t) : TrailingFormatAt(t, i)) - 1)
    ELSE t

\* C19: ForcedFetch (and Fetch, FetchOne, ForcedFetchOne through it) gives
\* doQuery the query without its trailing spaces, `;` and `FORMAT <word>`,
\* followed by " FORMAT TabSeparatedWithNames"; ForcedExec (and Exec) gives
\* doQuery the query as it is.
C19_FormatEnforced ==
    /\ sent.by = "ForcedFetch" =>
          sent.query = StripFormat(StripSpaces(StripSemicolon(StripSpaces(query))))
                          \o <<" ", "F", " ", "w">>
    /\ sent.by = "ForcedExec" => sent.query = query

\* the query `x FORMAT w;` has been sent by ForcedFetch
C19_Witness ==
    /\ query = <<"x", "F", " ", "w", ";">>
    /\ sent = [by |-> "ForcedFetch", query |-> <<"x", " ", "F", " ", "w">>]

\* C20: when the response stream is empty, or its reading fails before a
\* first line has been read, ForcedFetch returns the error "can't get columns
\* names" and an Iter without columns; it returns a nil error only when the
\* stream begins with a line.
C20_NoHeaderNoIterator ==
    (phase \in {"iter", "failed"} /\ fetchErr # "doQuery") =>
        /\ (\/ readCloser.body = <<>>
            \/ readCloser.tail = "ioerr" /\ IndexOf(readCloser.body, "\n") = 0)
              => /\ fetchErr = "can't get columns names"
                 /\ DOMAIN iter.columns = {}
        /\ fetchErr = "nil" => IndexOf(readCloser.body, "\n") > 0

\* the reading failed in the middle of the first line: no Iter
C20_Witness ==
    /\ phase = "failed" /\ fetchErr = "can't get columns names"
    /\ readCloser.body = <<"a">> /\ readCloser.tail = "ioerr"

\* the lines of a text that ends with a newline, and the cells of a line
Lines(text) == Split(SubSeq(text, 1, Len(text) - 1), "\n")
Cells(row) == Split(row, "\t")
\* a header of distinct names, then rows of as many cells, every line
\* terminated by a newline
ValidTable(text) ==
    /\ Len(text) > 0 /\ text[Len(text)] = "\n"
    /\ LET lines == Lines(text)
           header == Cells(lines[1])
       IN  /\ \A i, j \in DOMAIN header : header[i] = header[j] => i = j
           /\ \A k \in 2..Len(lines) : Len(Cells(lines[k])) = Len(header)
\* the cell a row has at the place the header has the name c
CellAt(header, row, c) == row[CHOOSE i \in DOMAIN header : header[i] = c]
\* the part of the stream that has been read, and the last line of it
Consumed(rc) == SubSeq(rc.body, 1, Len(rc.body) - Len(rc.data))
LinesRead(rc) == Cardinality({i \in 1..Len(Consumed(rc)) : Consumed(rc)[i] = "\n"})
\* what the Iter holds after it read some lines of a valid table: the names
\* of the header, and after a Next() that returned true the cells of the
\* last line read, a row; a Next() returns false only at the end
HoldsLastRow ==
    LET header == Cells(Lines(readCloser.body)[1])
        row == Cells(Lines(readCloser.body)[LinesRead(readCloser)])
        names == {header[i] : i \in DOMAIN header}
    IN  /\ DOMAIN iter.columns = names
        /\ ret # "panic"
        /\ ret = "true" =>
              /\ LinesRead(readCloser) >= 2
              /\ Columns(iter.Result) = names
              /\ \A c \in names :
                    String(iter.Result, c) = [value |-> CellAt(header, row, c), err |-> "nil"]
        /\ ret = "false" /\ met # "closed" => readCloser.data = <<>>

\* C21: over a header of distinct names followed by newline-terminated rows
\* of as many cells, every step that reads from the stream reads exactly one
\* row, for which Next() returns true with a Result whose Columns() are the
\* header names and whose String(c) is the cell of that row at the place of c
\* in the header; Next() returns false only when every row has been read.
C21_OneResultPerRow ==
    [][(/\ phase' = "iter"
        /\ phase = "iter" => <<readCloser', iter', ret', met'>> # <<readCloser, iter, ret, met>>
        /\ ValidTable(readCloser'.body)) =>
          /\ HoldsLastRow'
          /\ (phase = "iter" /\ readCloser'.data # readCloser.data) =>
                /\ ret' = "true"
                /\ LinesRead(readCloser') = LinesRead(readCloser) + 1
                /\ Consumed(readCloser')[Len(Consumed(readCloser'))] = "\n"]_vars

\* the row of the table `a<TAB>` / `<TAB>a` has been yielded: the column "a"
\* holds the empty cell, the column "" holds "a"
C21_Witness ==
    /\ phase = "iter" /\ ret = "true"
    /\ readCloser.body = <<"a", "\t", "\n", "\t", "a", "\n">>
    /\ iter.Result[<<"a">>] = <<>> /\ iter.Result[<<>>] = <<"a">>

\* the last Next() read a line with fewer cells than the first line has
ShortRowRead ==
    /\ phase = "iter" /\ ret # "none" /\ met = "line"
    /\ Len(Cells(Lines(Consumed(readCloser))[LinesRead(readCloser)]))
          < Len(Cells(Lines(Consumed(readCloser))[1]))

\* C22: a Next() that reads a row with fewer cells than the header panics
\* (index out of range); it does not return true, so no Result with a
\* missing or defaulted cell is delivered.
C22_ShortRowPanics == ShortRowRead => ret = "panic"

\* under the header `a<TAB>` the row `a` has one cell: Next() panicked
C22_Witness ==
    /\ phase = "iter" /\ ret = "panic"
    /\ Consumed(readCloser) = <<"a", "\t", "\n", "a", "\n">>

\* C23: an accessor call on iter.Result that fails (no such column, or a
\* cell that is no number) leaves the Result, the Iter and the stream as they
\* were: the same call again has the same outcome, String still returns
\* every cell of the Result, and the next Next() does what it would have done.
C23_FailedAccessorLocal ==
    [][(got' # got /\ got'.call \in Accessors /\ got'.err # "nil") =>
          /\ iter' = iter /\ readCloser' = readCloser
          /\ Access(got'.call, iter'.Result, got'.column)
                = [value |-> got'.value, err |-> got'.err]
          /\ \A c \in Columns(iter.Result) :
                String(iter'.Result, c) = [value |-> iter.Result[c], err |-> "nil"]
          /\ \A choice \in ReadChoices(readCloser) :
                IterNext(iter', readCloser', choice) = IterNext(iter, readCloser, choice)]_vars

\* UInt8("a") has failed on the cell "a" of a row that is followed by more
\* of the stream
C23_Witness ==
    /\ phase = "iter" /\ ret = "true"
    /\ got.call = "UInt8" /\ got.column = <<"a">> /\ got.err = "can't convert value"
    /\ <<"a">> \in Columns(iter.Result) /\ iter.Result[<<"a">>] = <<"a">>
    /\ readCloser.data # <<>>

\* the number a sequence of decimal digits denotes
RECURSIVE Decimal(_)
Decimal(s) ==
    IF Len(s) = 0 THEN 0
    ELSE Decimal(SubSeq(s, 1, Len(s) - 1)) * 10 + DigitOf(s[Len(s)])
\* the cell is a decimal numeral of an unsigned 8-bit integer
IsUInt8(cell) ==
    /\ Len(cell) > 0
    /\ \A i \in 1..Len(cell) : DigitOf(cell[i]) >= 0
    /\ Decimal(cell) <= 255

\* C24: Bool(column) returns true and no error exactly when the column is
\* present and its cell is the numeral of an unsigned 8-bit integer equal to
\* 1; false and no error for every other such numeral ("0" included); and an
\* error when the column is absent or the cell is no such numeral.
C24_BoolIsOne ==
    got.call = "Bool" =>
        IF got.column \in Columns(iter.Result) /\ IsUInt8(iter.Result[got.column])
        THEN /\ got.err = "nil"
             /\ got.value = (Decimal(iter.Result[got.column]) = 1)
        ELSE got.err # "nil" /\ got.value = FALSE

\* Bool("c") on the cell "2": false, and no error
C24_Witness ==
    /\ got.call = "Bool" /\ got.column = <<"c">>
    /\ <<"c">> \in Columns(iter.Result) /\ iter.Result[<<"c">>] = <<"2">>
    /\ got.value = FALSE /\ got.err = "nil"

\* the first line of a text that has one
FirstLine(text) == SubSeq(text, 1, IndexOf(text, "\n") - 1)

\* C27: the columns of an Iter are the names of the first line of the
\* response, each with its place, when ForcedFetch returns it, and from then
\* on no Next(), Close(), Err() or accessor call changes them (nor the
\* response they were read from).
C27_ColumnIndexBuiltOnce ==
    [][phase' = "iter" =>
          IF phase = "iter"
          THEN iter'.columns = iter.columns /\ readCloser'.body = readCloser.body
          ELSE iter'.columns = ColumnsOf(Cells(FirstLine(readCloser'.body)))]_vars

\* the end of the stream has been met and the stream closed twice, after a
\* row and an accessor call: the columns are those of the header `a<TAB>`
C27_Witness ==
    /\ phase = "iter" /\ ret = "false" /\ met = "EOF" /\ readCloser.closes = 2
    /\ got.call = "String" /\ DOMAIN iter.Result = {<<>>, <<"a">>}
    /\ iter.columns = [c \in {<<>>, <<"a">>} |-> IF c = <<>> THEN 1 ELSE 0]

\* C25: Unescape(Escape(s)) = s for every text s of the special characters
\* (backspace, form feed, carriage return, newline, tab, single quote,
\* backslash, slash, hyphen) and ordinary characters, the empty text included.
C25_EscapeRoundTrip == unescaped.done => unescaped.text = line

\* a backslash before the letter n, then a quote, has made the round trip
C25_Witness ==
    /\ line = <<"\\", "n", "'">>
    /\ escaped = [done |-> TRUE, text |-> <<"\\", "\\", "n", "'">>]
    /\ unescaped.done

\* C26: a pass through the loop of doQuery in which the request cannot be
\* built (the protocol is empty, the URL has no scheme) ends doQuery with an error: no request is sent, no sleep is made and
\* attempts is not counted up, whatever attemptsAmount is; and once doQuery
\* has returned nothing more is sent.
C26_BuildFailureIsFatal ==
    [][/\ (/\ dpc = "loop" /\ attempts < attemptsAmount
           /\ protocol = "" /\ protocol' = protocol)
             => /\ dpc' = "done" /\ result'.kind = "error"
                /\ result'.wrap = "Can't connect to host"
                /\ UNCHANGED <<log, sleeps, attempts>>
       /\ dpc = "done" => UNCHANGED <<dpc, result, log, sleeps, attempts>>]_vars

\* with 3 attempts allowed and a wait of 1 second, the first attempt was
\* sent and failed, then the request of the second could not be built:
\* doQuery has returned the error without having slept
C26_Witness ==
    /\ attemptsAmount = 3 /\ attemptWait = 1 /\ dpc = "done"
    /\ result.kind = "error" /\ result.wrap = "Can't connect to host"
    /\ Len(log) = 1 /\ sleeps = <<>> /\ attempts = 1

\* C28: in the atomic-counter Limiter with a constant ceiling C > 0 every
\* caller suspended in waitRequests eventually proceeds and runs its
\* operation, for any number of concurrent callers, provided the callers
\* that run return.
C28_AtomicSuspendedProceeds ==
    \A p \in AtomicCallers : (pc[p] = "suspended") ~> (pc[p] = "forced")

\* C29: in the atomic-counter Limiter every throttled call that has returned
\* has added 1 to requestsCounter as often as it has subtracted 1, so the
\* counter is never negative and is 0 when no call is in progress, also when
\* MaxRequests is called between the acquire and the release of a call.
C29_AtomicCounterBalanced ==
    /\ requestsCounter >= 0
    /\ \A p \in AtomicCallers : pc[p] = "idle" => incs[p] = reds[p]
    /\ (\A p \in AtomicCallers : pc[p] = "idle") => requestsCounter = 0

\* two accesses that need an order: the same field, one of them a write, and
\* not both atomic
Conflict(a, b) ==
    /\ a.kind = "access" /\ b.kind = "access"
    /\ a.field = b.field
    /\ a.write \/ b.write
    /\ ~(a.atomic /\ b.atomic)

\* C30: a read of a configuration field and a write of it are never both
\* about to happen in two goroutines unless both are atomic or the mutex
\* keeps one of them waiting.
C30_NoUnsynchronizedRead ==
    \A g, h \in Goroutines :
        (g # h /\ running[g] # Idle /\ running[h] # Idle)
            => ~Conflict(Pending(g), Pending(h))

\* the zero value of the type an accessor returns
ZeroOf(call) ==
    CASE call = "String" -> <<>>
      [] call = "UInt8" -> 0
      [] call = "Bool" -> FALSE
      [] call = "Exist" -> FALSE
      [] call \in {"Bytes", "Columns"} -> <<>>

\* C31: an accessor call that returns an error returns the zero value of its
\* type with it, for an absent column and for a cell that does not convert,
\* a numeral above the largest value of the width included.
C31_FailedAccessorZero ==
    got.call \in Accessors /\ got.err # "nil" => got.value = ZeroOf(got.call)

\* C32: when ForcedFetch or ForcedFetchOne returns the error of a header
\* line that could not be read, the stream doQuery gave has been closed, as
\* well when the stream was empty as when its reading failed with an error
\* other than the end of the stream.
C32_FailedFetchClosesStream ==
    (phase \in {"failed", "one"} /\ fetchErr = "can't get columns names") =>
        readCloser.closes >= 1

\* C33: once doQuery has returned and the stream it handed out, if any, has
\* been closed by the caller, the body of every response the transport gave
\* is closed, for gzip-encoded responses as for the others.
C33_EveryBodyClosed ==
    (dpc = "done" /\ handed # "open") =>
        \A i \in DOMAIN bodies : bodies[i] # "open"

\* C34: when the last response doQuery received has a status outside
\* 200..299, doQuery returns an error value: it does not panic, whatever the
\* body is (empty, or a page that begins with a tag and has no title).
C34_Non2xxReturnsError ==
    (/\ dpc = "done" /\ Len(log) > 0
     /\ ~log[Len(log)].res.isNil
     /\ log[Len(log)].res.status \notin 200..299)
        => result.kind = "error"

\* C35: with attemptsAmount = 0 a call of doQuery sends no request and
\* returns an error value.
C35_ZeroAttemptsReturnsError ==
    (attemptsAmount = 0 /\ dpc = "done") =>
        Len(log) = 0 /\ result.kind = "error"

C37_ExistStringColumnsAgree ==
    LET s == String(iter.Result, got.column) IN
    /\ got.call = "Exist" =>
          /\ got.err = "nil"
          /\ got.value = (s.err = "nil")
          /\ got.value = (got.column \in Columns(iter.Result))
    /\ got.call = "Bytes" =>
          /\ (got.err = "nil") = (s.err = "nil")
          /\ got.err = "nil" =>
                /\ Len(got.value) = Len(s.value)
                /\ \A i \in 1..Len(s.value) : got.value[i] = ByteOf(s.value[i])
    /\ got.call = "Columns" => got.err = "nil" /\ got.value = DOMAIN iter.Result

\* Exist("c") on a Result whose cell under `c` is the empty text: true
C37_Witness ==
    /\ got.call = "Exist" /\ got.column = <<"c">>
    /\ <<"c">> \in Columns(iter.Result) /\ iter.Result[<<"c">>] = <<>>
    /\ got.value = TRUE

\* the two-character sequences that begin with a backslash, and for a
\* character the one Unescape turns into it, if any
Pairs == {<<"\\", ch>> : ch \in Chars}
Restored(ch) == \E p \in Pairs : UnescapeOf(p) = ch
EscapedForm(ch) == IF Restored(ch) THEN CHOOSE p \in Pairs : UnescapeOf(p) = ch ELSE <<ch>>
RECURSIVE EscapedForms(_)
EscapedForms(text) ==
    IF Len(text) = 0 THEN <<>> ELSE EscapedForm(Head(text)) \o EscapedForms(Tail(text))

\* C38: Escape replaces every character that Unescape restores (backspace,
\* form feed, carriage return, newline, tab, single quote, backslash, slash,
\* hyphen) by its two-character sequence and copies the others, so that every
\* single quote of its output stands right after a backslash.
C38_EscapeCoversUnescape ==
    escaped.done =>
        /\ escaped.text = EscapedForms(line)
        /\ \A i \in 1..Len(escaped.text) :
              escaped.text[i] = "'" => i > 1 /\ escaped.text[i - 1] = "\\"

\* C39: the query InsertBatch gives to Exec is the header line, then every
\* character of tsvReader in order, then a newline, also for a text without
\* a backspace and for what follows the last backspace of a text.
C39_InsertBatchKeepsInput ==
    sent.by = "InsertBatch" =>
        \E withColumns \in BOOLEAN :
            sent.query = InsertHeader(withColumns) \o line \o <<"\n">>

====
